---- MODULE Spec2Model ----
(***************************************************************************)
(* State-machine model of src/tutorial08/tutorial08.c: the audio pipeline  *)
(* of the player.  Three threads act on one VideoState:                    *)
(*   - main():           the SDL event loop (seek keys, quit events);      *)
(*   - decode_thread():  the producer, which reads packets from the        *)
(*                       demuxer, services seeks and fills audioq;         *)
(*   - audio_callback(): the SDL audio thread, which drains audioq through *)
(*                       audio_decode_frame() and synchronize_audio().     *)
(* FFmpeg and SDL are external: every call into them is a nondeterministic *)
(* choice over the results their API allows.                               *)
(*                                                                         *)
(* Numbers.  Clock values are C doubles in seconds; the model keeps them   *)
(* as exact integers in units of 1/BytesPerSec seconds (one unit is the    *)
(* play time of one byte of output PCM), so that data_size/(n*sample_rate) *)
(* and time_base*pts are both whole numbers of units.                      *)
(***************************************************************************)
EXTENDS Integers, Sequences, FiniteSets, TLC

(***************************************************************************)
(* Bounds of the model.                                                    *)
(***************************************************************************)
MaxPkts == 2        \* packets av_read_frame delivers in one run
MaxFrames == 1      \* frames the decoder outputs in one run
MaxKeys == 1        \* seek keys pressed in one run
MaxCalls == 1       \* invocations of audio_callback in one run

(***************************************************************************)
(* Program constants.                                                      *)
(***************************************************************************)
MAX_AUDIOQ_SIZE == 5 * 16 * 1024
MAX_AUDIO_FRAME_SIZE == 192000
SAMPLE_CORRECTION_PERCENT_MAX == 10
AUDIO_DIFF_AVG_NB == 20
AV_SYNC_AUDIO_MASTER == 0
AV_SYNC_EXTERNAL_MASTER == 1
DEFAULT_AV_SYNC_TYPE == AV_SYNC_AUDIO_MASTER
SilenceSize == 1024
AudioBufCapacity == (MAX_AUDIO_FRAME_SIZE * 3) \div 2

\* FFmpeg constants.  AV_NOPTS_VALUE is INT64_MIN in FFmpeg; the model uses
\* the smallest value it can hold, which no real timestamp of the model takes.
AV_NOPTS_VALUE == -2147483647
AV_TIME_BASE == 1000000
AVSEEK_FLAG_BACKWARD == 1
AVERROR_EAGAIN == -11
AVERROR_EOF == -541478725
AVERROR_EIO == -5
AVERROR_INVALIDDATA == -1094995529

\* Pointers: NULL, and the address of the string literal "FLUSH".
NULL == 0
FlushData == -1

(***************************************************************************)
(* The media file being played (inputs of the run).                        *)
(***************************************************************************)
Channels == 2                   \* audio_ctx->channels
SampleRate == 8000              \* audio_ctx->sample_rate
TimeBaseDen == 1000             \* audio_st->time_base = 1/TimeBaseDen
BytesPerSec == 2 * Channels * SampleRate
\* the packets of the file: <<size, pts>>
FilePackets == {<<30000, AV_NOPTS_VALUE>>, <<90000, 500>>}
ChunkSizes == {2048, 4096}      \* sizes audio_resampling can return
\* the seek keys pressed: <<pos, incr>> as passed to stream_seek
SeekKeys == {<<-5000000, -10>>, <<10000400, 10>>}
CallbackLens == {4096}          \* len SDL passes to audio_callback

(***************************************************************************)
(* Arithmetic helpers (C semantics).                                       *)
(***************************************************************************)
\* C integer division truncates toward zero.
CDiv(a, b) == IF a >= 0 THEN a \div b ELSE -((-a) \div b)

Abs(x) == IF x < 0 THEN -x ELSE x

\* Faulty variant of Min: the first argument whatever the second.
MinFirst(a, b) == a

Min(a, b) == IF a < b THEN a ELSE b

\* The low 31 bits of a 32-bit two's complement int.
Low31(x) == IF x >= 0 THEN x ELSE (x + 2147483647) + 1

RECURSIVE AndBits(_, _, _)
AndBits(a, b, k) ==
    IF k = 0 \/ a = 0 \/ b = 0 THEN 0
    ELSE ((a % 2) * (b % 2)) + 2 * AndBits(a \div 2, b \div 2, k - 1)

\* a & b on 32-bit ints.
BitAnd32(a, b) ==
    LET low == AndBits(Low31(a), Low31(b), 31)
    IN  IF a < 0 /\ b < 0 THEN (low - 2147483647) - 1 ELSE low

\* av_rescale_q(pos, AV_TIME_BASE_Q, time_base) for time_base = 1/TimeBaseDen:
\* pos * TimeBaseDen / AV_TIME_BASE rounded to nearest, halves away from zero.
av_rescale_q(pos) ==
    LET d == AV_TIME_BASE \div TimeBaseDen
    IN  IF pos >= 0 THEN (pos + d \div 2) \div d ELSE -(((-pos) + d \div 2) \div d)

\* av_q2d(time_base) * pts, in clock units.
PtsToClock(pts) == pts * (BytesPerSec \div TimeBaseDen)

(***************************************************************************)
(* Packets.  seq is a ghost field: a stamp that grows in the order of the  *)
(* calls of packet_queue_put (it restarts when the queue is empty).        *)
(***************************************************************************)
flush_pkt == [data |-> FlushData, size |-> 0, pts |-> AV_NOPTS_VALUE, seq |-> 0]

EmptyPacket == [data |-> NULL, size |-> 0, pts |-> AV_NOPTS_VALUE, seq |-> 0]

(***************************************************************************)
(* PacketQueue: a singly linked list of AVPacketList nodes kept in heap,   *)
(* a map from node address to [pkt, next].                                 *)
(***************************************************************************)
packet_queue_init == [first_pkt |-> NULL, last_pkt |-> NULL, nb_packets |-> 0, size |-> 0]

\* av_malloc: the lowest free address.
av_malloc(h) == CHOOSE a \in 1..(Cardinality(DOMAIN h) + 1) : a \notin DOMAIN h

\* Ghost: the stamp of the next packet put on queue q.
NextSeq(q, h) == IF q.last_pkt \in DOMAIN h THEN h[q.last_pkt].pkt.seq + 1 ELSE 1

\* Faulty variant of SizeAfterPut: counts a byte per packet.
SizeAfterPutOne(q, packet) == q.size + 1

\* line 1072: queue->size += avPacketList->pkt.size.
SizeAfterPut(q, packet) == q.size + packet.size

\* Faulty variant of packet_queue_put: links the node at the head.
packet_queue_put_head(q, h, packet) ==
    LET avPacketList == av_malloc(h)
        h1 == [a \in (DOMAIN h) \cup {avPacketList} |->
                  IF a = avPacketList THEN [pkt |-> packet, next |-> q.first_pkt] ELSE h[a]]
    IN  << [first_pkt  |-> avPacketList,
            last_pkt   |-> IF q.last_pkt = NULL THEN avPacketList ELSE q.last_pkt,
            nb_packets |-> q.nb_packets + 1,
            size       |-> q.size + packet.size],
           h1 >>

\* Body of packet_queue_put between lock and unlock: <<queue, heap>>.
packet_queue_put(q, h, packet) ==
    LET avPacketList == av_malloc(h)
        h1 == [a \in (DOMAIN h) \cup {avPacketList} |->
                  IF a = avPacketList THEN [pkt |-> packet, next |-> NULL] ELSE h[a]]
        h2 == IF q.last_pkt = NULL THEN h1
              ELSE [h1 EXCEPT ![q.last_pkt].next = avPacketList]
    IN  << [first_pkt  |-> IF q.last_pkt = NULL THEN avPacketList ELSE q.first_pkt,
            last_pkt   |-> avPacketList,
            nb_packets |-> q.nb_packets + 1,
            size       |-> SizeAfterPut(q, packet)],
           h2 >>

\* The nodes linked from address a.
RECURSIVE ListFrom(_, _)
ListFrom(h, a) == IF a = NULL \/ a \notin DOMAIN h THEN <<>> ELSE <<a>> \o ListFrom(h, h[a].next)

Range(s) == {s[i] : i \in 1..Len(s)}

\* Faulty variant of packet_queue_flush: last_pkt is left as it was.
packet_queue_flush_stale(q, h) ==
    LET freed == Range(ListFrom(h, q.first_pkt))
    IN  << [first_pkt |-> NULL, last_pkt |-> q.last_pkt, nb_packets |-> 0, size |-> 0],
           [a \in (DOMAIN h) \ freed |-> h[a]] >>

\* Faulty variant of packet_queue_flush: nothing is freed.
packet_queue_flush_none(q, h) == << q, h >>

\* Body of packet_queue_flush: every node linked from first_pkt is freed.
packet_queue_flush(q, h) ==
    LET freed == Range(ListFrom(h, q.first_pkt))
    IN  << [first_pkt |-> NULL, last_pkt |-> NULL, nb_packets |-> 0, size |-> 0],
           [a \in (DOMAIN h) \ freed |-> h[a]] >>

\* The detach branch of packet_queue_get (first_pkt not NULL): <<queue, heap, packet>>.
packet_queue_detach(q, h) ==
    LET avPacketList == q.first_pkt
        first == h[avPacketList].next
    IN  << [first_pkt  |-> first,
            last_pkt   |-> IF first = NULL THEN NULL ELSE q.last_pkt,
            nb_packets |-> q.nb_packets - 1,
            size       |-> q.size - h[avPacketList].pkt.size],
           [a \in (DOMAIN h) \ {avPacketList} |-> h[a]],
           h[avPacketList].pkt >>

(***************************************************************************)
(* Clocks and synchronize_audio().  A clock value c stands for             *)
(* c / BytesPerSec seconds.  audio_diff_avg_coef is kept as a numerator    *)
(* over CoefDen, and audio_diff_cum in units of 1/(BytesPerSec * CumScale) *)
(* seconds, so that diff + coef * cum is exact.                            *)
(***************************************************************************)
CoefDen == 2
CumScale == 4
AV_NOSYNC_THRESHOLD == BytesPerSec      \* 1.0 second

\* get_audio_clock: audio_clock minus the play time of the bytes still staged.
get_audio_clock(clock, buf_size, buf_index) ==
    IF BytesPerSec /= 0 THEN clock - (buf_size - buf_index) ELSE clock

\* get_master_clock; wall is what get_external_clock would return.
get_master_clock(type, clock, buf_size, buf_index, wall) ==
    IF type = AV_SYNC_AUDIO_MASTER THEN get_audio_clock(clock, buf_size, buf_index)
    ELSE IF type = AV_SYNC_EXTERNAL_MASTER THEN wall
    ELSE -BytesPerSec

\* line 812: min_size = samples_size * ((100 - SAMPLE_CORRECTION_PERCENT_MAX) / 100).
MinSize(samples_size) == samples_size * CDiv(100 - SAMPLE_CORRECTION_PERCENT_MAX, 100)

\* line 813: max_size = samples_size * ((100 + SAMPLE_CORRECTION_PERCENT_MAX) / 100).
MaxSize(samples_size) == samples_size * CDiv(100 + SAMPLE_CORRECTION_PERCENT_MAX, 100)

\* The range of int.
INT_MAX == 2147483647
INT_MIN == -INT_MAX - 1

\* a + b in 32-bit two's complement, as the add instruction leaves it.
Add32(a, b) ==
    IF a > 0 /\ b > 0 /\ a > INT_MAX - b THEN ((a - INT_MAX) - 1) + ((b - INT_MAX) - 1)
    ELSE IF a < 0 /\ b < 0 /\ a < INT_MIN - b THEN ((a + INT_MAX) + 1) + ((b + INT_MAX) + 1)
    ELSE a + b

\* k * n in 32-bit two's complement, for 0 < n < 2^15: k is split into
\* 16-bit halves so that no intermediate value leaves the range.
Mul32(k, n) ==
    LET q == k \div 65536
        r == k % 65536
        h == (q * n) % 65536
        hs == IF h >= 32768 THEN h - 65536 ELSE h
    IN  Add32(hs * 65536, r * n)

\* line 811: (int)(diff * videoState->audio_ctx->sample_rate).
IntCast(diff) == CDiv(diff * SampleRate, BytesPerSec)

\* lines 811-822: the wanted size after clamping, cast being what the
\* conversion to int at line 811 gave and n the bytes of a sample frame.
WantedFor(samples_size, cast, n) ==
    LET wanted_size == Add32(samples_size, Mul32(cast, n))
    IN  IF wanted_size < MinSize(samples_size) THEN MinSize(samples_size)
        ELSE IF wanted_size > MaxSize(samples_size) THEN MaxSize(samples_size)
        ELSE wanted_size

\* line 811 and 815-822: the wanted size after clamping.
WantedSize(samples_size, diff) == WantedFor(samples_size, IntCast(diff), 2 * Channels)

\* Faulty variant of InSyncRange: the magnitude of diff is compared.
InSyncRangeAbs(diff) == Abs(diff) < AV_NOSYNC_THRESHOLD

\* line 790: diff < AV_NOSYNC_THRESHOLD.
InSyncRange(diff) == diff < AV_NOSYNC_THRESHOLD

\* line 793: audio_diff_cum after accumulating diff.
DiffCum(s, diff) == diff * CumScale + CDiv(s.audio_diff_avg_coef * s.audio_diff_cum, CoefDen)

\* Faulty variant of OverThreshold: the threshold is ignored.
OverThresholdAlways(s, cum) == TRUE

\* line 809 on the accumulated sum cum: fabs(avg_diff) >= audio_diff_threshold,
\* with avg_diff = cum * (1.0 - coef).
OverThreshold(s, cum) ==
    Abs(cum * (CoefDen - s.audio_diff_avg_coef)) >= s.audio_diff_threshold * CumScale * CoefDen

\* Faulty variant of SyncApplies: the correction runs in every mode.
SyncAppliesAlways(s) == TRUE

\* line 782: the correction applies when audio is not the master clock.
SyncApplies(s) == s.av_sync_type /= AV_SYNC_AUDIO_MASTER

\* lines 846-855: the offsets of the buffer the padding loop writes.
PadWrites(samples_size, wanted_size) ==
    LET n == 2 * Channels
        nb == samples_size - wanted_size
    IN  IF nb > 0 THEN samples_size .. (samples_size + n * ((nb + n - 1) \div n) - 1) ELSE {}

\* synchronize_audio(videoState, samples, samples_size), lines 774-871, called
\* when get_audio_clock() - get_master_clock() = diff.  The result holds the
\* new sync fields, the size returned and the buffer offsets written.
synchronize_audio(s, samples_size, diff) ==
    IF SyncApplies(s)
    THEN IF InSyncRange(diff)
         THEN LET cum == DiffCum(s, diff)
                  s1 == [s EXCEPT !.audio_diff_cum = cum]
              IN  IF s.audio_diff_avg_count < AUDIO_DIFF_AVG_NB
                  THEN [sync |-> [s1 EXCEPT !.audio_diff_avg_count = @ + 1],
                        size |-> samples_size, writes |-> {}, corrected |-> FALSE]
                  ELSE IF OverThreshold(s, cum)
                       THEN LET wanted_size == WantedSize(samples_size, diff)
                            IN  [sync |-> s1, size |-> wanted_size,
                                 writes |-> IF wanted_size > samples_size
                                            THEN PadWrites(samples_size, wanted_size) ELSE {},
                                 corrected |-> TRUE]
                       ELSE [sync |-> s1, size |-> samples_size, writes |-> {}, corrected |-> FALSE]
         ELSE [sync |-> [s EXCEPT !.audio_diff_avg_count = 0, !.audio_diff_cum = 0],
               size |-> samples_size, writes |-> {}, corrected |-> FALSE]
    ELSE [sync |-> s, size |-> samples_size, writes |-> {}, corrected |-> FALSE]

(***************************************************************************)
(* State.                                                                  *)
(***************************************************************************)
VARIABLES
    quit,                   \* videoState->quit
    seek_req,               \* videoState->seek_req
    seek_pos,               \* videoState->seek_pos
    seek_flags,             \* videoState->seek_flags
    audioq,                 \* videoState->audioq: first_pkt, last_pkt, nb_packets, size
    heap,                   \* the AVPacketList nodes allocated and not yet freed
    mutex,                  \* holder of audioq.mutex: "free", "decode", "audio"
    audio_clock,            \* videoState->audio_clock
    audio_buf,              \* what the staged block of videoState->audio_buf holds:
                            \* "zeros" or "pcm" (decoded samples)
    audio_buf_size,         \* videoState->audio_buf_size
    audio_buf_index,        \* videoState->audio_buf_index
    audio_pkt_size,         \* static audio_pkt_size of audio_decode_frame
    sync,                   \* av_sync_type, audio_diff_cum, audio_diff_avg_count,
                            \* audio_diff_avg_coef, audio_diff_threshold
    call,                   \* the last call of synchronize_audio: arguments and result
    main_pc, main_loc,      \* main(): position, and pos/rel of the stream_seek call
    dec_pc, dec_loc,        \* decode_thread(): position, and ret, packet, seek_target
    cb_pc, cb_loc,          \* audio_callback(): position and locals
    events,                 \* the SDL event queue: a pending FF_QUIT_EVENT
    env,                    \* the inputs used so far, and how many the run has
    stderr,                 \* the messages written to stderr
    hist                    \* ghost history of seeks and of audio_clock

vars == << quit, seek_req, seek_pos, seek_flags, audioq, heap, mutex, audio_clock,
           audio_buf, audio_buf_size, audio_buf_index, audio_pkt_size, sync, call,
           main_pc, main_loc, dec_pc, dec_loc, cb_pc, cb_loc, events, env, stderr, hist >>

seekVars == << seek_req, seek_pos, seek_flags >>
queueVars == << audioq, heap, mutex >>
bufVars == << audio_buf, audio_buf_size, audio_buf_index, sync, call >>
pumpVars == << audio_clock, audio_buf, audio_buf_size, audio_buf_index, audio_pkt_size, sync, call,
              cb_pc, cb_loc >>
mainVars == << main_pc, main_loc >>
decVars == << dec_pc, dec_loc >>

\* av_mallocz zeroes the VideoState; main sets av_sync_type; the diff
\* coefficient and threshold are assigned nowhere else.
SyncInit ==
    [av_sync_type |-> DEFAULT_AV_SYNC_TYPE, audio_diff_cum |-> 0, audio_diff_avg_count |-> 0,
     audio_diff_avg_coef |-> 0, audio_diff_threshold |-> 0]

CbLocInit == [len |-> 0, avPacket |-> EmptyPacket, len1 |-> 0, data_size |-> 0,
              ret |-> 0, audio_size |-> 0]

CallInit == [samples_size |-> 0, diff |-> 0, before |-> SyncInit, size |-> 0, writes |-> {},
             corrected |-> FALSE, cast |-> 0, n |-> 2 * Channels]

\* Ghost record of a seek: the position (as requested, or as rescaled for the
\* demuxer) and the flags.
NoSeek == [pos |-> 0, flags |-> 0]

\* Ghost history.  accepted: the last request stream_seek accepted; dropped: a
\* request was dropped since; applied: the seek being serviced; prev_clock,
\* last_clock: audio_clock at the last two returns of a chunk by
\* audio_decode_frame (-1: none); lowered: a popped packet has set audio_clock
\* below its value since the last return; lowered_before: the same between
\* the last two returns; seek_ret: what av_seek_frame returned for the seek
\* being serviced; flushed: how many packets of the file had been read when
\* packet_queue_flush last ran and freed: how many nodes it freed; marker_due:
\* no packet has been popped since;
\* asked, written: the len the current or last call of audio_callback was given
\* and the bytes it has copied to the stream so far; signalled:
\* SDL_CondSignal(audioq.cond) has been called with quit set; copied: the
\* bytes the last memcpy of audio_resampling wrote to audio_buf; released:
\* the media packets (by data) whose payload av_packet_unref has released;
\* resampled: the frames audio_resampling has been called on; live: the
\* allocations the last call of audio_resampling left unreleased; at_eof: the
\* packets (by data) that were queued when av_read_frame reported the end of
\* the file.
HistInit ==
    [accepted |-> NoSeek, dropped |-> FALSE, applied |-> NoSeek,
     prev_clock |-> -1, last_clock |-> -1, lowered |-> FALSE, lowered_before |-> FALSE,
     seek_ret |-> 0, flushed |-> 0, freed |-> 0, marker_due |-> FALSE,
     asked |-> 0, written |-> 0, signalled |-> FALSE, copied |-> 0, released |-> {},
     resampled |-> 0, live |-> {}, at_eof |-> {}]

\* The inputs of a run: the packets the file can hold, the sizes a resampled
\* frame can have, the error returns audio_resampling can take (the failure
\* of swr_convert unless a specification widens them), and the packets read,
\* frames decoded, keys pressed and callbacks made so far with their limits.
EnvInit(file, maxpkts, maxframes, maxkeys, maxcalls) ==
    [file |-> file, chunks |-> ChunkSizes, errors |-> {"swr_convert"},
     pkts |-> 0, frames |-> 0, keys |-> 0, calls |-> 0, sent |-> FALSE,
     maxpkts |-> maxpkts, maxframes |-> maxframes, maxkeys |-> maxkeys, maxcalls |-> maxcalls]

\* The state when decode_thread enters its main loop and the audio device
\* has been started (stream_component_open has returned 0).
InitState ==
    /\ quit = 0
    /\ seek_req = 0 /\ seek_pos = 0 /\ seek_flags = 0
    /\ audioq = packet_queue_init
    /\ heap = << >>
    /\ mutex = "free"
    /\ audio_clock = 0
    /\ audio_buf = "zeros"
    /\ audio_buf_size = 0 /\ audio_buf_index = 0
    /\ audio_pkt_size = 0
    /\ call = CallInit
    /\ main_pc = "wait_event" /\ main_loc = [pos |-> 0, rel |-> 0]
    /\ dec_pc = "loop" /\ dec_loc = [ret |-> 0, packet |-> EmptyPacket, seek_target |-> 0]
    /\ cb_pc = "idle" /\ cb_loc = CbLocInit
    /\ events = [ff_quit |-> 0]
    /\ stderr = {}
    /\ hist = HistInit

Init == InitState /\ sync = SyncInit /\ env = EnvInit(FilePackets, MaxPkts, MaxFrames, MaxKeys, MaxCalls)

(***************************************************************************)
(* SDL_CondSignal(audioq.cond): wakes the audio thread if it is waiting in *)
(* SDL_CondWait, and is lost otherwise.                                    *)
(***************************************************************************)
\* Faulty variant of SDL_CondSignal: the signal wakes nobody.
SDL_CondSignalLost(pc) == pc

SDL_CondSignal(pc) == IF pc = "get_waiting" THEN "get_woken" ELSE pc

(***************************************************************************)
(* decode_thread(): the producer loop, lines 530-640.                      *)
(***************************************************************************)
\* line 533: the quit check at the top of the loop.
decode_thread_loop ==
    /\ dec_pc = "loop"
    /\ dec_pc' = IF quit /= 0 THEN "tail" ELSE "seek"
    /\ UNCHANGED << quit, seekVars, queueVars, pumpVars, mainVars, dec_loc, events, env, stderr, hist >>

\* line 539: the pending-seek check.
decode_thread_seek_check ==
    /\ dec_pc = "seek"
    /\ dec_pc' = IF seek_req /= 0 THEN "seek_pos" ELSE "cap"
    /\ UNCHANGED << quit, seekVars, queueVars, pumpVars, mainVars, dec_loc, events, env, stderr, hist >>

\* lines 542-553: read seek_pos and rescale it to the stream time base.
decode_thread_seek_target ==
    /\ dec_pc = "seek_pos"
    /\ dec_loc' = [dec_loc EXCEPT !.seek_target = av_rescale_q(seek_pos)]
    /\ dec_pc' = "seek_frame"
    /\ UNCHANGED << quit, seekVars, queueVars, pumpVars, mainVars, events, env, stderr, hist >>

\* The result of the seek as the producer sees it: ret &= av_seek_frame(...).
SeekStatus(ret, r) == BitAnd32(ret, r)

\* lines 555-560: the container seek; r is what av_seek_frame returns.
decode_thread_seek_frame ==
    /\ dec_pc = "seek_frame"
    /\ \E r \in {0, AVERROR_EIO} :
        LET ret1 == SeekStatus(dec_loc.ret, r) IN
        /\ dec_loc' = [dec_loc EXCEPT !.ret = ret1]
        /\ hist' = [hist EXCEPT !.applied = [pos |-> dec_loc.seek_target, flags |-> seek_flags],
                                !.seek_ret = r]
        /\ IF ret1 < 0
           THEN /\ stderr' = stderr \cup {"error while seeking"}
                /\ dec_pc' = "seek_clear"
           ELSE /\ stderr' = stderr
                /\ dec_pc' = "flush_lock"
    /\ UNCHANGED << quit, seekVars, queueVars, pumpVars, mainVars, events, env >>

\* line 1169: packet_queue_flush takes the mutex.
decode_thread_flush_lock ==
    /\ dec_pc = "flush_lock"
    /\ mutex = "free"
    /\ mutex' = "decode"
    /\ dec_pc' = "flush_body"
    /\ UNCHANGED << quit, seekVars, audioq, heap, pumpVars, mainVars, dec_loc, events, env, stderr, hist >>

\* lines 1171-1183: packet_queue_flush frees the nodes, resets the queue, unlocks.
decode_thread_flush ==
    /\ dec_pc = "flush_body"
    /\ mutex = "decode"
    /\ LET r == packet_queue_flush(audioq, heap) IN
        /\ audioq' = r[1]
        /\ heap' = r[2]
    /\ hist' = [hist EXCEPT !.flushed = env.pkts, !.freed = audioq.nb_packets,
                            !.marker_due = TRUE]
    /\ mutex' = "free"
    /\ dec_pc' = "putf_lock"
    /\ UNCHANGED << quit, seekVars, pumpVars, mainVars, dec_loc, events, env, stderr >>

\* line 1051: packet_queue_put(&audioq, &flush_pkt) takes the mutex.
decode_thread_put_flush_lock ==
    /\ dec_pc = "putf_lock"
    /\ mutex = "free"
    /\ mutex' = "decode"
    /\ dec_pc' = "putf_body"
    /\ UNCHANGED << quit, seekVars, audioq, heap, pumpVars, mainVars, dec_loc, events, env, stderr, hist >>

\* lines 1054-1078 for the flush marker: link, count, signal, unlock.
decode_thread_put_flush ==
    /\ dec_pc = "putf_body"
    /\ mutex = "decode"
    /\ LET r == packet_queue_put(audioq, heap, [flush_pkt EXCEPT !.seq = NextSeq(audioq, heap)]) IN
        /\ audioq' = r[1]
        /\ heap' = r[2]
    /\ cb_pc' = SDL_CondSignal(cb_pc)
    /\ hist' = [hist EXCEPT !.signalled = @ \/ quit /= 0]
    /\ mutex' = "free"
    /\ dec_pc' = "seek_clear"
    /\ UNCHANGED << quit, seekVars, audio_clock, audio_pkt_size, bufVars, cb_loc,
                    mainVars, dec_loc, events, env, stderr >>

\* Faulty variant of decode_thread_seek_clear: the flag is cleared only after
\* a seek that did not report an error.
decode_thread_seek_clear_onsuccess ==
    /\ dec_pc = "seek_clear"
    /\ seek_req' = IF dec_loc.ret < 0 THEN seek_req ELSE 0
    /\ dec_loc' = [dec_loc EXCEPT !.seek_target = 0]
    /\ hist' = [hist EXCEPT !.applied = NoSeek, !.accepted = NoSeek, !.dropped = FALSE,
                            !.seek_ret = 0]
    /\ dec_pc' = "cap"
    /\ UNCHANGED << quit, seek_pos, seek_flags, queueVars, pumpVars, mainVars,
                    events, env, stderr >>

\* line 571: the pending flag is cleared.
decode_thread_seek_clear ==
    /\ dec_pc = "seek_clear"
    /\ seek_req' = 0
    /\ dec_loc' = [dec_loc EXCEPT !.seek_target = 0]
    /\ hist' = [hist EXCEPT !.applied = NoSeek, !.accepted = NoSeek, !.dropped = FALSE,
                            !.seek_ret = 0]
    /\ dec_pc' = "cap"
    /\ UNCHANGED << quit, seek_pos, seek_flags, queueVars, pumpVars, mainVars,
                    events, env, stderr >>

\* lines 575-581: back-pressure; audioq.size is read without the mutex, and
\* over the cap the producer sleeps and starts the loop again.
decode_thread_full ==
    /\ dec_pc = "cap"
    /\ audioq.size > MAX_AUDIOQ_SIZE
    /\ dec_pc' = "loop"
    /\ UNCHANGED << quit, seekVars, queueVars, pumpVars, mainVars, dec_loc, events, env, stderr, hist >>

\* Faulty variant of decode_thread_read_packet: the size of the queue is not
\* looked at before reading.
decode_thread_read_packet_uncapped ==
    /\ dec_pc = "cap"
    /\ env.pkts < env.maxpkts
    /\ \E p \in env.file :
        dec_loc' = [dec_loc EXCEPT !.ret = 0,
                       !.packet = [data |-> env.pkts + 1, size |-> p[1], pts |-> p[2], seq |-> 0]]
    /\ env' = [env EXCEPT !.pkts = @ + 1]
    /\ dec_pc' = "put_lock"
    /\ UNCHANGED << quit, seekVars, queueVars, pumpVars, mainVars, events, stderr, hist >>

\* lines 575, 584, 607-609: av_read_frame delivers a packet of the audio stream.
decode_thread_read_packet ==
    /\ dec_pc = "cap"
    /\ audioq.size <= MAX_AUDIOQ_SIZE
    /\ env.pkts < env.maxpkts
    /\ \E p \in env.file :
        dec_loc' = [dec_loc EXCEPT !.ret = 0,
                       !.packet = [data |-> env.pkts + 1, size |-> p[1], pts |-> p[2], seq |-> 0]]
    /\ env' = [env EXCEPT !.pkts = @ + 1]
    /\ dec_pc' = "put_lock"
    /\ UNCHANGED << quit, seekVars, queueVars, pumpVars, mainVars, events, stderr, hist >>

\* lines 575, 584, 611-615: a packet of another stream is unreferenced.
decode_thread_read_other ==
    /\ dec_pc = "cap"
    /\ audioq.size <= MAX_AUDIOQ_SIZE
    /\ dec_loc' = [dec_loc EXCEPT !.ret = 0]
    /\ dec_pc' = "loop"
    /\ UNCHANGED << quit, seekVars, queueVars, pumpVars, mainVars, events, env, stderr, hist >>

\* the packets in the list of q, by data
QueuedData(q, h) == {h[n].pkt.data : n \in Range(ListFrom(h, q.first_pkt))}

\* Faulty variant of decode_thread_read_eof: quit is set at the end of the
\* file only when the queue has drained.
decode_thread_read_eof_drained ==
    /\ dec_pc = "cap"
    /\ audioq.size <= MAX_AUDIOQ_SIZE
    /\ dec_loc' = [dec_loc EXCEPT !.ret = AVERROR_EOF]
    /\ quit' = IF audioq.nb_packets = 0 THEN 1 ELSE quit
    /\ hist' = [hist EXCEPT !.at_eof = QueuedData(audioq, heap)]
    /\ dec_pc' = "tail"
    /\ UNCHANGED << seekVars, queueVars, pumpVars, mainVars, events, env, stderr >>

\* lines 575, 584-592: end of file; quit is set and the loop is left.
decode_thread_read_eof ==
    /\ dec_pc = "cap"
    /\ audioq.size <= MAX_AUDIOQ_SIZE
    /\ dec_loc' = [dec_loc EXCEPT !.ret = AVERROR_EOF]
    /\ quit' = 1
    /\ hist' = [hist EXCEPT !.at_eof = QueuedData(audioq, heap)]
    /\ dec_pc' = "tail"
    /\ UNCHANGED << seekVars, queueVars, pumpVars, mainVars, events, env, stderr >>

\* lines 575, 584, 593-604: a read error; with pb->error == 0 the read is
\* retried after a delay, otherwise the loop is left.
decode_thread_read_error ==
    /\ dec_pc = "cap"
    /\ audioq.size <= MAX_AUDIOQ_SIZE
    /\ \E pb_error \in {0, AVERROR_EIO} :
        /\ dec_loc' = [dec_loc EXCEPT !.ret = IF pb_error = 0 THEN AVERROR_EAGAIN ELSE AVERROR_EIO]
        /\ dec_pc' = IF pb_error = 0 THEN "loop" ELSE "tail"
    /\ UNCHANGED << quit, seekVars, queueVars, pumpVars, mainVars, events, env, stderr, hist >>

\* line 1051: packet_queue_put(&audioq, packet) takes the mutex.
decode_thread_put_lock ==
    /\ dec_pc = "put_lock"
    /\ mutex = "free"
    /\ mutex' = "decode"
    /\ dec_pc' = "put_body"
    /\ UNCHANGED << quit, seekVars, audioq, heap, pumpVars, mainVars, dec_loc, events, env, stderr, hist >>

\* lines 1054-1078 for a media packet: link, count, signal, unlock.
decode_thread_put ==
    /\ dec_pc = "put_body"
    /\ mutex = "decode"
    /\ LET r == packet_queue_put(audioq, heap, [dec_loc.packet EXCEPT !.seq = NextSeq(audioq, heap)]) IN
        /\ audioq' = r[1]
        /\ heap' = r[2]
    /\ cb_pc' = SDL_CondSignal(cb_pc)
    /\ hist' = [hist EXCEPT !.signalled = @ \/ quit /= 0]
    /\ mutex' = "free"
    /\ dec_loc' = [dec_loc EXCEPT !.packet = EmptyPacket]
    /\ dec_pc' = "loop"
    /\ UNCHANGED << quit, seekVars, audio_clock, audio_pkt_size, bufVars, cb_loc,
                    mainVars, events, env, stderr >>

\* lines 619-639: after the loop, wait until quit is set; then close the
\* input, push FF_QUIT_EVENT and return.
decode_thread_fail ==
    /\ dec_pc = "tail"
    /\ quit /= 0
    /\ events' = [events EXCEPT !.ff_quit = 1]
    /\ dec_pc' = "done"
    /\ UNCHANGED << quit, seekVars, queueVars, pumpVars, mainVars, dec_loc, env, stderr, hist >>

decode_thread_seek ==
    \/ decode_thread_seek_target
    \/ decode_thread_seek_frame
    \/ decode_thread_flush_lock
    \/ decode_thread_flush
    \/ decode_thread_put_flush_lock
    \/ decode_thread_put_flush
    \/ decode_thread_seek_clear

decode_thread_read ==
    \/ decode_thread_loop
    \/ decode_thread_seek_check
    \/ decode_thread_full
    \/ decode_thread_read_packet
    \/ decode_thread_read_other
    \/ decode_thread_read_eof
    \/ decode_thread_read_error
    \/ decode_thread_put_lock
    \/ decode_thread_put
    \/ decode_thread_fail

decode_thread == decode_thread_read \/ decode_thread_seek

(***************************************************************************)
(* main(): the event loop, lines 337-425, and stream_seek(), 1715-1723.    *)
(***************************************************************************)
\* line 1720: the flags stream_seek derives from rel.
SeekFlags(rel) == IF rel < 0 THEN AVSEEK_FLAG_BACKWARD ELSE 0

\* Faulty variant of SeekAccepted: a request replaces a pending one.
SeekAcceptedAlways(req) == TRUE

\* line 1717: stream_seek goes on only when no request is pending.
SeekAccepted(req) == req = 0

\* lines 351-385, 1717: a seek key; stream_seek tests the pending flag.
\* A request made while one is pending is dropped: nothing is written,
\* nothing is printed, nothing is returned.
main_key_down ==
    /\ main_pc = "wait_event"
    /\ env.keys < env.maxkeys
    /\ \E key \in SeekKeys :
        IF SeekAccepted(seek_req)
        THEN /\ main_loc' = [pos |-> key[1], rel |-> key[2]]
             /\ hist' = [hist EXCEPT !.accepted = [pos |-> key[1], flags |-> SeekFlags(key[2])],
                                     !.dropped = FALSE]
             /\ main_pc' = "seek_pos"
        ELSE /\ main_loc' = main_loc
             /\ hist' = [hist EXCEPT !.dropped = TRUE]
             /\ main_pc' = "check_quit"
    /\ env' = [env EXCEPT !.keys = @ + 1]
    /\ UNCHANGED << quit, seekVars, queueVars, pumpVars, decVars, events, stderr >>

\* Faulty variant of stream_seek_pos: the pending flag is raised together
\* with the first of the three writes.
stream_seek_pos_flagged ==
    /\ main_pc = "seek_pos"
    /\ seek_pos' = main_loc.pos
    /\ seek_req' = 1
    /\ main_pc' = "seek_flags"
    /\ UNCHANGED << quit, seek_flags, queueVars, pumpVars, main_loc, decVars,
                    events, env, stderr, hist >>

\* line 1719: videoState->seek_pos = pos.
stream_seek_pos ==
    /\ main_pc = "seek_pos"
    /\ seek_pos' = main_loc.pos
    /\ main_pc' = "seek_flags"
    /\ UNCHANGED << quit, seek_req, seek_flags, queueVars, pumpVars, main_loc, decVars,
                    events, env, stderr, hist >>

\* line 1720: videoState->seek_flags = rel < 0 ? AVSEEK_FLAG_BACKWARD : 0.
stream_seek_flags ==
    /\ main_pc = "seek_flags"
    /\ seek_flags' = SeekFlags(main_loc.rel)
    /\ main_pc' = "seek_req"
    /\ UNCHANGED << quit, seek_req, seek_pos, queueVars, pumpVars, main_loc, decVars,
                    events, env, stderr, hist >>

\* line 1721: videoState->seek_req = 1.
stream_seek_req ==
    /\ main_pc = "seek_req"
    /\ seek_req' = 1
    /\ main_loc' = [pos |-> 0, rel |-> 0]
    /\ main_pc' = "check_quit"
    /\ UNCHANGED << quit, seek_pos, seek_flags, queueVars, pumpVars, decVars,
                    events, env, stderr, hist >>

\* lines 396-399: SDL_QUIT from the user, or FF_QUIT_EVENT pushed by
\* decode_thread; quit is set.
main_quit_event ==
    /\ main_pc = "wait_event"
    /\ \E e \in {"SDL_QUIT", "FF_QUIT_EVENT"} :
        /\ e = "FF_QUIT_EVENT" => events.ff_quit = 1
        /\ events' = IF e = "FF_QUIT_EVENT" THEN [events EXCEPT !.ff_quit = 0] ELSE events
    /\ quit' = 1
    /\ main_pc' = "quit_signal"
    /\ UNCHANGED << seekVars, queueVars, pumpVars, main_loc, decVars, env, stderr, hist >>

\* lines 406-408: SDL_CondSignal(audioq.cond), without the mutex; SDL_Quit().
main_quit_signal ==
    /\ main_pc = "quit_signal"
    /\ cb_pc' = SDL_CondSignal(cb_pc)
    /\ hist' = [hist EXCEPT !.signalled = @ \/ quit /= 0]
    /\ main_pc' = "check_quit"
    /\ UNCHANGED << quit, seekVars, queueVars, audio_clock, audio_pkt_size, bufVars, cb_loc,
                    main_loc, decVars, events, env, stderr >>

\* lines 420-430: the quit check that ends the event loop.
main_check_quit ==
    /\ main_pc = "check_quit"
    /\ main_pc' = IF quit /= 0 THEN "exit" ELSE "wait_event"
    /\ UNCHANGED << quit, seekVars, queueVars, pumpVars, main_loc, decVars, events, env, stderr, hist >>

stream_seek == main_key_down \/ stream_seek_pos \/ stream_seek_flags \/ stream_seek_req

main_quit == main_quit_event \/ main_quit_signal \/ main_check_quit

(***************************************************************************)
(* The SDL audio thread: audio_callback(), lines 1196-1261,                *)
(* audio_decode_frame(), 1276-1429, and packet_queue_get(), 1094-1159.     *)
(***************************************************************************)
\* what get_external_clock can return when synchronize_audio asks
ExternalClocks == {0, BytesPerSec \div 2}

\* line 1403: audio_decode_frame calls packet_queue_get with block = 1.
Blocking == 1

\* Faulty variant of ClockAfterChunk: the clock runs backwards.
ClockAfterChunkBack(clock, data_size) == clock - data_size

\* line 1390: audio_clock += data_size / (n * sample_rate).
ClockAfterChunk(clock, data_size) ==
    IF BytesPerSec /= 0 THEN clock + data_size ELSE clock

\* Faulty variant of ClockAfterPacket: the timestamp is added to the clock.
ClockAfterPacketAdd(clock, pkt) ==
    IF pkt.pts /= AV_NOPTS_VALUE THEN clock + PtsToClock(pkt.pts) ELSE clock

\* lines 1422-1425: audio_clock after a packet has been popped.
ClockAfterPacket(clock, pkt) ==
    IF pkt.pts /= AV_NOPTS_VALUE THEN PtsToClock(pkt.pts) ELSE clock

\* Faulty variant of audio_callback_silence: the error ends the callback.
audio_callback_silence_abort(loc) ==
    /\ UNCHANGED bufVars
    /\ cb_loc' = [CbLocInit EXCEPT !.audio_size = -1]
    /\ cb_pc' = "idle"

\* lines 1221-1232, 1242: audio_decode_frame has returned a negative
\* audio_size; 1024 bytes of the buffer are zeroed and staged.
audio_callback_silence(loc) ==
    /\ audio_buf' = "zeros"
    /\ audio_buf_size' = SilenceSize
    /\ audio_buf_index' = 0
    /\ UNCHANGED << sync, call >>
    /\ cb_loc' = [loc EXCEPT !.avPacket = EmptyPacket, !.len1 = 0, !.audio_size = -1]
    /\ cb_pc' = "cb_copy"

\* lines 1221-1243: audio_decode_frame has returned audio_size with
\* audio_clock = clock and the locals loc.  The buffer is staged (silence on
\* an error, the synchronised chunk otherwise) and audio_buf_index restarts.
audio_callback_fill(audio_size, clock, loc) ==
    IF audio_size < 0
    THEN audio_callback_silence(loc)
    ELSE \E wall \in ExternalClocks :
        LET diff == get_audio_clock(clock, audio_buf_size, audio_buf_index)
                      - get_master_clock(sync.av_sync_type, clock, audio_buf_size, audio_buf_index, wall)
            r == synchronize_audio(sync, audio_size, diff)
        IN  /\ audio_buf' = "pcm"
            /\ audio_buf_size' = r.size
            /\ audio_buf_index' = 0
            /\ sync' = r.sync
            /\ call' = [samples_size |-> audio_size, diff |-> diff, before |-> sync,
                        size |-> r.size, writes |-> r.writes, corrected |-> r.corrected,
                        cast |-> IF r.corrected THEN IntCast(diff) ELSE 0, n |-> 2 * Channels]
            /\ cb_loc' = [loc EXCEPT !.avPacket = EmptyPacket, !.len1 = 0, !.audio_size = r.size]
            /\ cb_pc' = "cb_copy"

\* Faulty variant of audio_callback_enter: every call starts again at the
\* beginning of the staged block.
audio_callback_enter_rewind ==
    /\ cb_pc = "idle"
    /\ env.calls < env.maxcalls
    /\ \E len \in CallbackLens :
        /\ cb_loc' = [cb_loc EXCEPT !.len = len]
        /\ hist' = [hist EXCEPT !.asked = len, !.written = 0]
    /\ env' = [env EXCEPT !.calls = @ + 1]
    /\ audio_buf_index' = 0
    /\ cb_pc' = "cb_loop"
    /\ UNCHANGED << quit, seekVars, queueVars, audio_clock, audio_pkt_size, audio_buf,
                    audio_buf_size, sync, call, mainVars, decVars, events, stderr >>

\* line 1196: SDL calls audio_callback(userdata, stream, len).
audio_callback_enter ==
    /\ cb_pc = "idle"
    /\ env.calls < env.maxcalls
    /\ \E len \in CallbackLens :
        /\ cb_loc' = [cb_loc EXCEPT !.len = len]
        /\ hist' = [hist EXCEPT !.asked = len, !.written = 0]
    /\ env' = [env EXCEPT !.calls = @ + 1]
    /\ cb_pc' = "cb_loop"
    /\ UNCHANGED << quit, seekVars, queueVars, audio_clock, audio_pkt_size, bufVars,
                    mainVars, decVars, events, stderr >>

\* lines 1204-1210: the quit check of the copy loop; the callback returns.
audio_callback_quit ==
    /\ cb_pc = "cb_loop"
    /\ quit /= 0
    /\ cb_loc' = CbLocInit
    /\ cb_pc' = "idle"
    /\ UNCHANGED << quit, seekVars, queueVars, audio_clock, audio_pkt_size, bufVars,
                    mainVars, decVars, events, env, stderr, hist >>

\* Faulty variant of audio_callback_refill: quit is not looked at.
audio_callback_refill_blind ==
    /\ cb_pc = "cb_loop"
    /\ audio_buf_index >= audio_buf_size
    /\ cb_loc' = [cb_loc EXCEPT !.avPacket = EmptyPacket, !.len1 = 0, !.data_size = 0,
                               !.ret = 0, !.audio_size = 0]
    /\ cb_pc' = "adf_loop"
    /\ UNCHANGED << quit, seekVars, queueVars, audio_clock, audio_pkt_size, bufVars,
                    mainVars, decVars, events, env, stderr, hist >>

\* lines 1213-1216, 1279-1303: the buffer is used up; audio_decode_frame is
\* called and allocates a fresh, empty AVPacket.
audio_callback_refill ==
    /\ cb_pc = "cb_loop"
    /\ quit = 0
    /\ audio_buf_index >= audio_buf_size
    /\ cb_loc' = [cb_loc EXCEPT !.avPacket = EmptyPacket, !.len1 = 0, !.data_size = 0,
                               !.ret = 0, !.audio_size = 0]
    /\ cb_pc' = "adf_loop"
    /\ UNCHANGED << quit, seekVars, queueVars, audio_clock, audio_pkt_size, bufVars,
                    mainVars, decVars, events, env, stderr, hist >>

\* lines 1245-1259: copy what is left of the buffer to the stream, after a
\* refill or when the quit check found the buffer not used up.
audio_callback_copy ==
    /\ \/ cb_pc = "cb_copy"
       \/ cb_pc = "cb_loop" /\ quit = 0 /\ audio_buf_index < audio_buf_size
    /\ LET len1 == Min(audio_buf_size - audio_buf_index, cb_loc.len) IN
        /\ audio_buf_index' = audio_buf_index + len1
        /\ cb_loc' = [cb_loc EXCEPT !.len = @ - len1, !.ret = 0]
        /\ cb_pc' = IF cb_loc.len - len1 > 0 THEN "cb_loop" ELSE "idle"
        /\ hist' = [hist EXCEPT !.written = @ + len1]
    /\ UNCHANGED << quit, seekVars, queueVars, audio_clock, audio_pkt_size, audio_buf,
                    audio_buf_size, sync, call, mainVars, decVars, events, env, stderr >>

\* lines 1306-1312: the quit check at the top of the decode loop; -1 is returned.
audio_decode_frame_quit ==
    /\ cb_pc = "adf_loop"
    /\ quit /= 0
    /\ audio_callback_fill(-1, audio_clock, cb_loc)
    /\ UNCHANGED << quit, seekVars, queueVars, audio_clock, audio_pkt_size,
                    mainVars, decVars, events, env, stderr, hist >>

\* Faulty variant of IsFlushPacket: no packet is taken for the marker.
IsFlushPacketNever(pkt) == FALSE

\* line 1411: avPacket->data == flush_pkt.data.
IsFlushPacket(pkt) == pkt.data = flush_pkt.data

\* lines 1396-1400: av_packet_unref(avPacket) releases the payload of a media
\* packet; the copy of flush_pkt and an empty packet hold none.
av_packet_unref(released, pkt) ==
    IF pkt.data /= NULL /\ ~IsFlushPacket(pkt) THEN released \cup {pkt.data} ELSE released

\* lines 1315, 1396-1403: with bytes of a packet left the decoder is run,
\* otherwise the packet is wiped and packet_queue_get is called.
audio_decode_frame_loop ==
    /\ cb_pc = "adf_loop"
    /\ quit = 0
    /\ IF audio_pkt_size > 0
       THEN /\ cb_pc' = "adf_while"
            /\ cb_loc' = cb_loc
            /\ hist' = hist
       ELSE /\ cb_pc' = "get_lock"
            /\ cb_loc' = [cb_loc EXCEPT !.avPacket = EmptyPacket]
            /\ hist' = [hist EXCEPT !.released = av_packet_unref(@, cb_loc.avPacket)]
    /\ UNCHANGED << quit, seekVars, queueVars, audio_clock, audio_pkt_size, bufVars,
                    mainVars, decVars, events, env, stderr >>

\* lines 1320-1344: what avcodec_receive_frame (r1) and avcodec_send_packet
\* (r2) leave in ret.
DecodeStatus(r1, r2) ==
    LET ret == IF r1 = AVERROR_EAGAIN THEN 0 ELSE r1
    IN  IF ret = 0 THEN r2 ELSE ret

\* the decoder after one pass of the loop: frames handed out, data received
DecoderAfter(r1, r2) ==
    [env EXCEPT !.frames = IF r1 = 0 THEN @ + 1 ELSE @,
                !.sent = @ \/ (r1 \in {0, AVERROR_EAGAIN} /\ r2 = 0 /\ cb_loc.avPacket.size > 0)]

\* a frame comes out only of a decoder that was given data
DecoderCan(r1) == r1 = 0 => (env.sent /\ env.frames < env.maxframes)

\* lines 1345-1349: a decoding error; -1 is returned, audio_pkt_size is kept.
audio_decode_frame_error ==
    /\ cb_pc = "adf_while"
    /\ \E r1 \in {0, AVERROR_EAGAIN, AVERROR_EOF}, r2 \in {0, AVERROR_EAGAIN, AVERROR_INVALIDDATA} :
        /\ DecoderCan(r1)
        /\ DecodeStatus(r1, r2) /= AVERROR_EAGAIN
        /\ DecodeStatus(r1, r2) < 0
        /\ env' = DecoderAfter(r1, r2)
    /\ audio_callback_fill(-1, audio_clock, cb_loc)
    /\ UNCHANGED << quit, seekVars, queueVars, audio_clock, audio_pkt_size,
                    mainVars, decVars, events, stderr, hist >>

\* len1 and audio_pkt_size after a pass without an error, lines 1341-1362.
Len1After(r1, r2) ==
    IF DecodeStatus(r1, r2) = AVERROR_EAGAIN THEN cb_loc.len1 ELSE cb_loc.avPacket.size

\* lines 1446-1649: the error returns of audio_resampling, by the call that
\* failed or the value that was rejected.
ResampleErrors ==
    {"swr_alloc", "in_channel_layout", "in_nb_samples", "swr_init", "max_out_nb_samples",
     "av_samples_alloc_array_and_samples", "out_nb_samples", "av_samples_alloc",
     "swr_convert", "av_samples_get_buffer_size"}

\* lines 1693-1695, 1562, 1596-1599: what a call has allocated when it
\* leaves at the given exit: the state record and (unless swr_alloc failed)
\* the context in getAudioResampling, then the array of plane pointers and
\* the sample buffer.
ResampleAllocated(exit) ==
    CASE exit = "swr_alloc" -> {"arState"}
      [] exit \in {"in_channel_layout", "in_nb_samples", "swr_init", "max_out_nb_samples",
                   "av_samples_alloc_array_and_samples"} -> {"arState", "swr_ctx"}
      [] OTHER -> {"arState", "swr_ctx", "resampled_data", "resampled_data[0]"}

\* lines 1596, 1664-1677: what the call has released when it leaves: the
\* cleanup at the end is reached by the successful return only and frees
\* the sample buffer, the array and the context; the sample buffer is also
\* freed before av_samples_alloc replaces it.
ResampleReleased(exit) ==
    CASE exit = "ok" -> {"resampled_data[0]", "resampled_data", "swr_ctx"}
      [] exit = "av_samples_alloc" -> {"resampled_data[0]"}
      [] OTHER -> {}

\* lines 1441-1680: the allocations a call leaves behind.
ResampleLive(exit) == ResampleAllocated(exit) \ ResampleReleased(exit)

\* Faulty variant of audio_decode_frame_more: a frame that could not be
\* resampled makes audio_decode_frame return an error.
audio_decode_frame_more_strict ==
    /\ cb_pc = "adf_while"
    /\ \E r1 \in {0, AVERROR_EAGAIN}, r2 \in {0, AVERROR_EAGAIN}, data_size \in {0, -1},
          exit \in env.errors \cup {"none"} :
        /\ DecoderCan(r1)
        /\ (r1 = 0) = (data_size = -1)
        /\ (r1 = 0) = (exit /= "none")
        /\ env' = DecoderAfter(r1, r2)
        /\ LET len1 == Len1After(r1, r2) IN
            /\ audio_pkt_size' = audio_pkt_size - len1
            /\ IF data_size < 0
               THEN audio_callback_fill(-1, audio_clock, [cb_loc EXCEPT !.data_size = data_size])
               ELSE /\ UNCHANGED bufVars
                    /\ IF audio_pkt_size - len1 > 0
                       THEN /\ cb_pc' = "adf_while"
                            /\ cb_loc' = [cb_loc EXCEPT !.len1 = len1, !.data_size = data_size]
                       ELSE /\ cb_pc' = "get_lock"
                            /\ cb_loc' = [cb_loc EXCEPT !.len1 = len1, !.data_size = data_size,
                                                        !.avPacket = EmptyPacket]
            /\ hist' = [hist EXCEPT !.released = IF data_size < 0 \/ audio_pkt_size - len1 > 0
                                                  THEN @
                                                  ELSE av_packet_unref(@, cb_loc.avPacket),
                                    !.resampled = IF r1 = 0 THEN @ + 1 ELSE @,
                                    !.live = IF r1 = 0 THEN ResampleLive(exit) ELSE @]
    /\ UNCHANGED << quit, seekVars, queueVars, audio_clock,
                    mainVars, decVars, events, stderr >>

\* lines 1320-1383, 1315, 1396-1403: a pass that yields no data (no frame yet,
\* or a frame audio_resampling failed on); the loop goes on while bytes are
\* left, then the packet is wiped and the next one fetched.
audio_decode_frame_more ==
    /\ cb_pc = "adf_while"
    /\ \E r1 \in {0, AVERROR_EAGAIN}, r2 \in {0, AVERROR_EAGAIN}, data_size \in {0, -1},
          exit \in env.errors \cup {"none"} :
        /\ DecoderCan(r1)
        /\ (r1 = 0) = (data_size = -1)
        /\ (r1 = 0) = (exit /= "none")
        /\ env' = DecoderAfter(r1, r2)
        /\ LET len1 == Len1After(r1, r2) IN
            /\ audio_pkt_size' = audio_pkt_size - len1
            /\ IF audio_pkt_size - len1 > 0
               THEN /\ cb_pc' = "adf_while"
                    /\ cb_loc' = [cb_loc EXCEPT !.len1 = len1, !.data_size = data_size]
               ELSE /\ cb_pc' = "get_lock"
                    /\ cb_loc' = [cb_loc EXCEPT !.len1 = len1, !.data_size = data_size,
                                                !.avPacket = EmptyPacket]
            /\ hist' = [hist EXCEPT !.released = IF audio_pkt_size - len1 > 0 THEN @
                                                  ELSE av_packet_unref(@, cb_loc.avPacket),
                                    !.resampled = IF r1 = 0 THEN @ + 1 ELSE @,
                                    !.live = IF r1 = 0 THEN ResampleLive(exit) ELSE @]
    /\ UNCHANGED << quit, seekVars, queueVars, audio_clock, bufVars,
                    mainVars, decVars, events, stderr >>

\* line 1377: assert(data_size <= buf_size), with buf_size = sizeof(audio_buf).
AssertHolds(data_size) == data_size <= AudioBufCapacity

\* lines 1320-1393, 1658: a frame is decoded and resampled; audio_resampling
\* copies its data_size bytes to audio_buf and the assert follows.  When the
\* assert holds, or is compiled out (ndebug), audio_clock advances and the
\* chunk is returned; otherwise the process is aborted.
audio_decode_frame_chunk ==
    /\ cb_pc = "adf_while"
    /\ \E r2 \in {0, AVERROR_EAGAIN}, data_size \in env.chunks, ndebug \in BOOLEAN :
        /\ DecoderCan(0)
        /\ env' = DecoderAfter(0, r2)
        /\ IF AssertHolds(data_size) \/ ndebug
           THEN LET len1 == Len1After(0, r2)
                    clock == ClockAfterChunk(audio_clock, data_size)
                IN  /\ audio_pkt_size' = audio_pkt_size - len1
                    /\ audio_clock' = clock
                    /\ hist' = [hist EXCEPT !.prev_clock = hist.last_clock, !.last_clock = clock,
                                            !.lowered_before = hist.lowered, !.lowered = FALSE,
                                            !.copied = data_size, !.resampled = @ + 1,
                                            !.live = ResampleLive("ok")]
                    /\ audio_callback_fill(data_size, clock, [cb_loc EXCEPT !.data_size = data_size])
                    /\ UNCHANGED << mainVars, decVars >>
           ELSE /\ hist' = [hist EXCEPT !.copied = data_size, !.resampled = @ + 1,
                                            !.live = ResampleLive("ok")]
                /\ cb_pc' = "aborted" /\ main_pc' = "aborted" /\ dec_pc' = "aborted"
                /\ UNCHANGED << audio_clock, audio_pkt_size, bufVars, cb_loc, main_loc, dec_loc >>
    /\ UNCHANGED << quit, seekVars, queueVars, events, stderr >>

\* line 1101: packet_queue_get takes the mutex.
packet_queue_get_lock ==
    /\ cb_pc = "get_lock"
    /\ mutex = "free"
    /\ mutex' = "audio"
    /\ cb_pc' = "get_check"
    /\ UNCHANGED << quit, seekVars, audioq, heap, audio_clock, audio_pkt_size, bufVars, cb_loc,
                    mainVars, decVars, events, env, stderr, hist >>

\* lines 1106-1110, 1156-1158, 1406-1409: quit is set; packet_queue_get
\* unlocks and returns -1, and so does audio_decode_frame.
packet_queue_get_quit ==
    /\ cb_pc = "get_check"
    /\ mutex = "audio"
    /\ quit /= 0
    /\ mutex' = "free"
    /\ audio_callback_fill(-1, audio_clock, [cb_loc EXCEPT !.ret = -1])
    /\ UNCHANGED << quit, seekVars, audioq, heap, audio_clock, audio_pkt_size,
                    mainVars, decVars, events, env, stderr, hist >>

\* Faulty variant of packet_queue_get_check: the list is looked at whatever
\* quit holds.
packet_queue_get_check_blind ==
    /\ cb_pc = "get_check"
    /\ mutex = "audio"
    /\ cb_pc' = "get_body"
    /\ UNCHANGED << quit, seekVars, queueVars, audio_clock, audio_pkt_size, bufVars, cb_loc,
                    mainVars, decVars, events, env, stderr, hist >>

\* line 1106: quit is not set; go on to look at the list.
packet_queue_get_check ==
    /\ cb_pc = "get_check"
    /\ mutex = "audio"
    /\ quit = 0
    /\ cb_pc' = "get_body"
    /\ UNCHANGED << quit, seekVars, queueVars, audio_clock, audio_pkt_size, bufVars, cb_loc,
                    mainVars, decVars, events, env, stderr, hist >>

\* lines 1113-1141, 1156-1158, 1411-1425: the head is detached and returned;
\* a flush marker flushes the decoder, a media packet sets audio_pkt_size and,
\* with a timestamp, audio_clock.
packet_queue_get_detach ==
    /\ cb_pc = "get_body"
    /\ mutex = "audio"
    /\ audioq.first_pkt /= NULL
    /\ LET r == packet_queue_detach(audioq, heap)
           pkt == r[3]
           flush == IsFlushPacket(pkt)
           clock == IF flush THEN audio_clock ELSE ClockAfterPacket(audio_clock, pkt)
       IN  /\ audioq' = r[1]
           /\ heap' = r[2]
           /\ cb_loc' = [cb_loc EXCEPT !.avPacket = pkt, !.ret = 1]
           /\ audio_pkt_size' = IF flush THEN audio_pkt_size ELSE pkt.size
           /\ audio_clock' = clock
           /\ env' = IF flush THEN [env EXCEPT !.sent = FALSE] ELSE env
           /\ hist' = [hist EXCEPT !.lowered = @ \/ clock < audio_clock, !.marker_due = FALSE]
    /\ mutex' = "free"
    /\ cb_pc' = "adf_loop"
    /\ UNCHANGED << quit, seekVars, bufVars, mainVars, decVars, events, stderr >>

\* Faulty variant of packet_queue_get_wait: the wait keeps the mutex.
packet_queue_get_wait_holding ==
    /\ cb_pc = "get_body"
    /\ mutex = "audio"
    /\ audioq.first_pkt = NULL
    /\ Blocking /= 0
    /\ mutex' = mutex
    /\ cb_pc' = "get_waiting"
    /\ UNCHANGED << quit, seekVars, audioq, heap, audio_clock, audio_pkt_size, bufVars, cb_loc,
                    mainVars, decVars, events, env, stderr, hist >>

\* lines 1143-1153: the list is empty and block != 0; SDL_CondWait releases
\* the mutex and waits for a signal.
packet_queue_get_wait ==
    /\ cb_pc = "get_body"
    /\ mutex = "audio"
    /\ audioq.first_pkt = NULL
    /\ Blocking /= 0
    /\ mutex' = "free"
    /\ cb_pc' = "get_waiting"
    /\ UNCHANGED << quit, seekVars, audioq, heap, audio_clock, audio_pkt_size, bufVars, cb_loc,
                    mainVars, decVars, events, env, stderr, hist >>

\* line 1151: a signalled SDL_CondWait takes the mutex again and returns.
packet_queue_get_wake ==
    /\ cb_pc = "get_woken"
    /\ mutex = "free"
    /\ mutex' = "audio"
    /\ cb_pc' = "get_check"
    /\ UNCHANGED << quit, seekVars, audioq, heap, audio_clock, audio_pkt_size, bufVars, cb_loc,
                    mainVars, decVars, events, env, stderr, hist >>

audio_callback ==
    \/ audio_callback_enter
    \/ audio_callback_quit
    \/ audio_callback_refill
    \/ audio_callback_copy

audio_decode_frame ==
    \/ audio_decode_frame_quit
    \/ audio_decode_frame_loop
    \/ audio_decode_frame_error
    \/ audio_decode_frame_more
    \/ audio_decode_frame_chunk

packet_queue_get ==
    \/ packet_queue_get_lock
    \/ packet_queue_get_quit
    \/ packet_queue_get_check
    \/ packet_queue_get_detach
    \/ packet_queue_get_wait
    \/ packet_queue_get_wake

audio_thread == audio_callback \/ audio_decode_frame \/ packet_queue_get

(***************************************************************************)
(* The program: the three threads interleaved.                             *)
(***************************************************************************)
Next == decode_thread \/ stream_seek \/ main_quit \/ audio_thread

Spec == Init /\ [][Next]_vars

(***************************************************************************)
(* The seek handshake: the program with two seek keys and a file of one    *)
(* kind of packet.                                                         *)
(***************************************************************************)
MaxSeekKeys == 2
SeekPackets == {<<90000, 500>>}

InitSeek ==
    InitState /\ sync = SyncInit
              /\ env = EnvInit(SeekPackets, MaxPkts, MaxFrames, MaxSeekKeys, MaxCalls)

SeekSpec == InitSeek /\ [][Next]_vars

(***************************************************************************)
(* Playback without seek keys: more packets, with the timestamps 0, 500    *)
(* and 1000 or none, and more decoded frames.                              *)
(***************************************************************************)
MaxClockPkts == 3
MaxClockFrames == 2
ClockPackets == {<<30000, AV_NOPTS_VALUE>>, <<30000, 0>>, <<30000, 500>>, <<90000, 1000>>}

InitClock ==
    InitState /\ sync = SyncInit
              /\ env = EnvInit(ClockPackets, MaxClockPkts, MaxClockFrames, 0, MaxCalls)

NextClock == decode_thread_read \/ main_quit \/ audio_thread

ClockSpec == InitClock /\ [][NextClock]_vars

(***************************************************************************)
(* Quitting under fair scheduling: every thread that can take a step       *)
(* eventually takes one.                                                   *)
(***************************************************************************)
InitQuit ==
    InitState /\ sync = SyncInit
              /\ env = EnvInit(FilePackets, MaxPkts, MaxFrames, 0, MaxCalls)

FairSpec ==
    /\ InitQuit
    /\ [][NextClock]_vars
    /\ WF_vars(decode_thread_read)
    /\ WF_vars(main_quit)
    /\ WF_vars(audio_thread)

\* The program with a seek key under the same scheduling: decode_thread and
\* the audio thread keep running and a stream_seek that was entered runs to
\* its end; the user need never press a key or quit.
FairSeekSpec ==
    /\ Init
    /\ [][Next]_vars
    /\ WF_vars(decode_thread)
    /\ WF_vars(stream_seek_pos \/ stream_seek_flags \/ stream_seek_req)
    /\ WF_vars(audio_thread)

\* Two calls of audio_callback on a file of one kind of packet, without seeks.
MaxStreamCalls == 2

InitStream ==
    InitState /\ sync = SyncInit
              /\ env = EnvInit(SeekPackets, MaxPkts, MaxFrames, 0, MaxStreamCalls)

StreamSpec == InitStream /\ [][NextClock]_vars

\* The resampler can also deliver a frame one sample frame larger than
\* audio_buf, and can fail at each of its error returns; seeks are left out.
OversizeChunk == AudioBufCapacity + 2 * Channels

InitResample ==
    InitState /\ sync = SyncInit
              /\ env = [EnvInit(FilePackets, MaxPkts, MaxFrames, 0, MaxCalls)
                           EXCEPT !.chunks = {4096, OversizeChunk}, !.errors = ResampleErrors]

ResampleSpec == InitResample /\ [][NextClock]_vars

(***************************************************************************)
(* synchronize_audio() as a function: the sync fields are drawn from small *)
(* sets and the function is applied to drawn chunk sizes and clock         *)
(* differences.                                                            *)
(***************************************************************************)
MaxSyncCalls == 3
SyncTypes == {AV_SYNC_AUDIO_MASTER, AV_SYNC_EXTERNAL_MASTER}
SyncCoefs == {0, 1}                         \* audio_diff_avg_coef: 0 and 1/2
SyncThresholds == {0, BytesPerSec \div 8}   \* audio_diff_threshold: 0 and 0.125 s
SyncCounts == {0, AUDIO_DIFF_AVG_NB - 1, AUDIO_DIFF_AVG_NB}
SyncCums == {-2 * BytesPerSec, 0, BytesPerSec \div 4}
\* get_audio_clock() - get_master_clock(): -5 s, -0.5 s .. 1.0 s, 2 s
SyncDiffs == {-5 * BytesPerSec, -(BytesPerSec \div 2), -(BytesPerSec \div 16), 0,
              BytesPerSec \div 16, BytesPerSec \div 2, BytesPerSec - 1, BytesPerSec,
              2 * BytesPerSec}

InitSync ==
    /\ InitState
    /\ sync \in [av_sync_type : SyncTypes, audio_diff_cum : SyncCums,
                 audio_diff_avg_count : SyncCounts, audio_diff_avg_coef : SyncCoefs,
                 audio_diff_threshold : SyncThresholds]
    /\ env = EnvInit({}, 0, 0, 0, MaxSyncCalls)

\* audio_callback line 1236 alone: synchronize_audio on a chunk of
\* samples_size bytes when the clocks differ by diff.
synchronize_audio_call ==
    /\ env.calls < env.maxcalls
    /\ \E samples_size \in ChunkSizes, diff \in SyncDiffs :
        LET r == synchronize_audio(sync, samples_size, diff) IN
        /\ (sync.audio_diff_avg_coef * sync.audio_diff_cum) % CoefDen = 0
        /\ sync' = r.sync
        /\ call' = [samples_size |-> samples_size, diff |-> diff, before |-> sync,
                    size |-> r.size, writes |-> r.writes, corrected |-> r.corrected,
                    cast |-> IF r.corrected THEN IntCast(diff) ELSE 0, n |-> 2 * Channels]
    /\ env' = [env EXCEPT !.calls = @ + 1]
    /\ UNCHANGED << quit, seekVars, queueVars, audio_clock, audio_buf, audio_buf_size,
                    audio_buf_index, audio_pkt_size, cb_pc, cb_loc, mainVars, decVars, events, stderr, hist >>

SyncSpec == InitSync /\ [][synchronize_audio_call]_vars

\* The reference clock can be hours ahead of the audio clock (the external
\* clock is av_gettime(), the time since 1970), further than a clock value
\* of the model reaches.  These are values of (int)(diff * sample_rate) for
\* such diffs: the smallest int, and values whose product with n leaves the
\* range of int by a little or by a multiple of 2^32.
FarCasts ==
    {INT_MIN, INT_MIN + 1, -1073742336, -1073741825, -1073741824, -715827883, -536871424,
     -536870913, -536870912, -536870400}

\* audio_ctx->channels of the file played: stereo or 5.1.
FarChannels == {2, 6}

\* sizes of a resampled frame that are whole sample frames for both
FarSizes == {3072, 6144}

\* synchronize_audio, lines 811-866 alone: the correction on a chunk of
\* samples_size bytes when the conversion at line 811 gave cast; the sum
\* audio_diff_cum of such a diff is outside the model's range and is left out.
synchronize_audio_far ==
    /\ env.calls < env.maxcalls
    /\ SyncApplies(sync)
    /\ sync.audio_diff_avg_count >= AUDIO_DIFF_AVG_NB
    /\ \E samples_size \in FarSizes, cast \in FarCasts, channels \in FarChannels :
        LET wanted_size == WantedFor(samples_size, cast, 2 * channels) IN
        call' = [samples_size |-> samples_size, diff |-> 0, before |-> sync,
                 size |-> wanted_size, writes |-> {},
                 corrected |-> TRUE, cast |-> cast, n |-> 2 * channels]
    /\ env' = [env EXCEPT !.calls = @ + 1]
    /\ UNCHANGED << quit, seekVars, queueVars, audio_clock, audio_buf, audio_buf_size,
                    audio_buf_index, audio_pkt_size, cb_pc, cb_loc, mainVars, decVars, events,
                    stderr, hist, sync >>

NextCast == synchronize_audio_call \/ synchronize_audio_far

CastSpec == InitSync /\ [][NextCast]_vars

(***************************************************************************)
(* Properties of the packet queue.                                         *)
(***************************************************************************)
\* the nodes linked from first_pkt, head first
QueueList == ListFrom(heap, audioq.first_pkt)

RECURSIVE SumSizes(_, _)
SumSizes(h, nodes) ==
    IF nodes = << >> THEN 0 ELSE h[Head(nodes)].pkt.size + SumSizes(h, Tail(nodes))

\* C1: in every state of every interleaving of packet_queue_put,
\* packet_queue_get and packet_queue_flush, audioq.size is the sum of the
\* sizes of the packets linked in the queue.
C1_SizeIsSum == audioq.size = SumSizes(heap, QueueList)

\* After a seek the flush marker is the head and a media packet follows it.
C1_Witness ==
    /\ audioq.nb_packets = 2
    /\ audioq.size = 90000
    /\ heap[audioq.first_pkt].pkt.data = FlushData

\* C2: in every state, nb_packets = 0 iff size = 0 iff first_pkt is NULL,
\* the flush marker included.
C2_EmptyIff ==
    /\ (audioq.nb_packets = 0) <=> (audioq.size = 0)
    /\ (audioq.size = 0) <=> (audioq.first_pkt = NULL)

\* the step in which packet_queue_get detaches a packet
PopStep == cb_pc = "get_body" /\ cb_pc' = "adf_loop"

\* C3: packet_queue_get returns the packets in the order of the calls of
\* packet_queue_put: the packet popped is the head, it was put before every
\* packet still linked, and the others keep their order.
C3_Fifo ==
    [][PopStep =>
        LET popped == cb_loc'.avPacket
            rest == ListFrom(heap', audioq'.first_pkt)
        IN  /\ popped = heap[audioq.first_pkt].pkt
            /\ rest = Tail(QueueList)
            /\ \A i \in 1..Len(rest) :
                /\ popped.seq < heap'[rest[i]].pkt.seq
                /\ (popped.data > 0 /\ heap'[rest[i]].pkt.data > 0)
                      => popped.data < heap'[rest[i]].pkt.data
            /\ \A i, j \in 1..Len(rest) :
                i < j => heap'[rest[i]].pkt.seq < heap'[rest[j]].pkt.seq]_vars

\* The first packet of the file has been popped while the second is queued.
C3_Witness ==
    /\ cb_pc = "adf_loop"
    /\ cb_loc.avPacket.data = 1
    /\ audioq.nb_packets = 1
    /\ heap[audioq.first_pkt].pkt.data = 2

\* the packets of the file as packet_queue_put gets them, in sequences of up
\* to two
PushSeqs ==
    LET P == {[data |-> 1, size |-> p[1], pts |-> p[2], seq |-> 0] : p \in FilePackets} \cup {flush_pkt}
    IN  {<< >>} \cup {<<a>> : a \in P} \cup {<<a, b>> : a \in P, b \in P}

RECURSIVE PutAll(_, _)
PutAll(qh, pkts) ==
    IF pkts = << >> THEN qh
    ELSE PutAll(packet_queue_put(qh[1], qh[2], Head(pkts)), Tail(pkts))

\* the step in which decode_thread runs the body of packet_queue_flush
FlushStep == dec_pc = "flush_body" /\ dec_pc' = "putf_lock"

\* C4: packet_queue_flush leaves first_pkt, last_pkt, nb_packets and size as
\* packet_queue_init does, whatever the queue held, and the packets pushed
\* after it give the queue they give when pushed into a fresh one.
C4_FlushIsFresh ==
    [][FlushStep =>
        /\ audioq' = packet_queue_init
        /\ \A pkts \in PushSeqs :
            PutAll(<<audioq', heap'>>, pkts)[1] = PutAll(<<packet_queue_init, << >> >>, pkts)[1]]_vars

\* The flush has just removed two packets nobody had popped.
C4_Witness ==
    /\ dec_pc = "putf_lock"
    /\ audioq = packet_queue_init
    /\ env.pkts = 2
    /\ env.calls = 0

(***************************************************************************)
(* Properties of quitting and seeking.                                     *)
(***************************************************************************)
\* the audio thread is inside packet_queue_get
InGet == {"get_lock", "get_check", "get_body", "get_waiting", "get_woken"}

\* C5: once quit is set, an audio thread that is inside packet_queue_get
\* (blocked or about to block) eventually leaves it.
C5_QuitWakes == (quit /= 0 /\ cb_pc \in InGet) ~> (cb_pc \notin InGet)

\* decode_thread has called av_seek_frame and not yet cleared seek_req
Servicing == {"flush_lock", "flush_body", "putf_lock", "putf_body", "seek_clear"}

\* C6: while a request is pending, seek_pos and seek_flags are those of the
\* request stream_seek accepted, and the seek decode_thread performs uses
\* that position (rescaled to the stream time base) and those flags; a
\* request made meanwhile changes nothing.
C6_FirstSeekApplied ==
    /\ seek_req /= 0 => (seek_pos = hist.accepted.pos /\ seek_flags = hist.accepted.flags)
    /\ dec_pc \in Servicing =>
          hist.applied = [pos |-> av_rescale_q(hist.accepted.pos), flags |-> hist.accepted.flags]

\* A second key was dropped, and the seek performed is the first one's.
C6_Witness ==
    /\ hist.dropped
    /\ dec_pc \in Servicing
    /\ hist.accepted = [pos |-> 10000400, flags |-> 0]
    /\ hist.applied = [pos |-> 10000, flags |-> 0]

\* C6 as stated: the first request is the one applied, and the step that
\* drops a request reports it.
C6_DropReported ==
    /\ []C6_FirstSeekApplied
    /\ [][(~hist.dropped /\ hist'.dropped) => (stderr' /= stderr \/ main_loc' /= main_loc)]_vars

(***************************************************************************)
(* Properties of synchronize_audio.                                        *)
(***************************************************************************)
\* C7: when synchronize_audio applies a correction, the size it returns is
\* between 0.9 and 1.1 times samples_size.
C7_Clamp ==
    call.corrected =>
        /\ 10 * call.size >= 9 * call.samples_size
        /\ 10 * call.size <= 11 * call.samples_size

\* |avg_diff| < audio_diff_threshold for the sum accumulated by the last call
AvgDiffBelow ==
    Abs(sync.audio_diff_cum * (CoefDen - sync.audio_diff_avg_coef))
        < sync.audio_diff_threshold * CumScale * CoefDen

\* C8: synchronize_audio returns samples_size and writes nothing to the
\* buffer when fewer than AUDIO_DIFF_AVG_NB differences were accumulated
\* before the call or |avg_diff| is below audio_diff_threshold.
C8_Passthrough ==
    (call.samples_size > 0
       /\ (call.before.audio_diff_avg_count < AUDIO_DIFF_AVG_NB \/ AvgDiffBelow))
    => (call.size = call.samples_size /\ call.writes = {})

\* External master, the window is full, the clocks differ, and the average
\* is below the threshold.
C8_Witness ==
    /\ call.before.av_sync_type = AV_SYNC_EXTERNAL_MASTER
    /\ call.before.audio_diff_avg_count = AUDIO_DIFF_AVG_NB
    /\ call.diff \notin {0, BytesPerSec}
    /\ AvgDiffBelow
    /\ call.size = call.samples_size

(***************************************************************************)
(* Properties of audio_clock.                                              *)
(***************************************************************************)
\* C9 as stated: audio_clock at a return of audio_decode_frame with a chunk
\* is not below its value at the return before.
C9_Monotone == hist.prev_clock >= 0 => hist.prev_clock <= hist.last_clock

\* C9: audio_clock at a return of audio_decode_frame with a chunk is not
\* below its value at the return before, unless a packet popped in between
\* carried a timestamp that set the clock below its running value.
C9_MonotoneUnlessSetBack ==
    (hist.prev_clock >= 0 /\ ~hist.lowered_before) => hist.prev_clock <= hist.last_clock

\* Two chunks were returned, a packet was popped in between, and the clock
\* went up.
C9_Witness ==
    /\ hist.prev_clock >= 0
    /\ ~hist.lowered_before
    /\ hist.last_clock > hist.prev_clock
    /\ env.pkts = 3

\* C10: right after a packet with a timestamp is popped, audio_clock is
\* timestamp * time_base; a packet without one leaves audio_clock as it was.
C10_ClockSnap ==
    [][PopStep =>
        LET pkt == cb_loc'.avPacket
        IN  IF pkt.data /= FlushData /\ pkt.pts /= AV_NOPTS_VALUE
            THEN audio_clock' * TimeBaseDen = pkt.pts * BytesPerSec
            ELSE audio_clock' = audio_clock]_vars

\* The third packet, with timestamp 1000, has been popped: the clock is 1.0 s.
C10_Witness ==
    /\ cb_pc = "adf_loop"
    /\ cb_loc.avPacket.data = 3
    /\ cb_loc.avPacket.pts = 1000
    /\ audio_clock = BytesPerSec

\* ---------------------------------------------------------------------------
\* C11: audio_callback returns only when it has copied exactly the len bytes it
\* was asked for to the stream, or when quit is set: a step that takes the
\* callback back to idle while quit is clear leaves written = asked, and at no
\* time has it copied more than it was asked for.
CallbackReturn == cb_pc /= "idle" /\ cb_pc' = "idle"

C11_ReturnsFullOrQuit ==
    [][(CallbackReturn /\ quit = 0 => hist'.written = hist'.asked)
       /\ hist'.written <= hist'.asked]_vars

\* a call that was asked for bytes has returned with all of them, quit clear,
\* after staging more than one block.
C11_Witness ==
    /\ cb_pc = "idle" /\ quit = 0
    /\ hist.asked > 0 /\ hist.written = hist.asked
    /\ audio_buf_size < hist.asked

\* ---------------------------------------------------------------------------
\* C12: in audio-master mode synchronize_audio returns samples_size unchanged
\* and leaves audio_diff_cum, audio_diff_avg_count (every synchronisation
\* field) and the sample buffer unchanged.
C12_MasterNoOp ==
    (call.samples_size > 0 /\ call.before.av_sync_type = AV_SYNC_AUDIO_MASTER)
    => /\ call.size = call.samples_size
       /\ sync.audio_diff_cum = call.before.audio_diff_cum
       /\ sync.audio_diff_avg_count = call.before.audio_diff_avg_count
       /\ sync = call.before
       /\ call.writes = {}

\* Audio master with a full window, a large accumulated difference and a
\* threshold of 0, behind the master by half a second: every condition of the
\* correction but the mode holds.
C12_Witness ==
    /\ call.before.av_sync_type = AV_SYNC_AUDIO_MASTER
    /\ call.before.audio_diff_avg_count = AUDIO_DIFF_AVG_NB
    /\ call.before.audio_diff_threshold = 0
    /\ call.before.audio_diff_cum /= 0
    /\ call.diff = -(BytesPerSec \div 2)
    /\ call.size = call.samples_size

\* ---------------------------------------------------------------------------
\* C13: when quit is set at the moment packet_queue_get checks it, the call
\* returns -1 without waiting and without detaching a packet, empty queue or
\* not, and leaves the list, nb_packets and size as they were.
GetCheckStep == cb_pc = "get_check" /\ cb_pc' /= "get_check"

C13_QuitReturnsAtOnce ==
    [][(GetCheckStep /\ quit /= 0)
       => /\ cb_loc'.ret = -1
          /\ cb_pc' \notin {"get_body", "get_waiting", "get_woken"}
          /\ cb_loc'.avPacket = EmptyPacket
          /\ audioq' = audioq /\ heap' = heap
          /\ mutex' = "free"]_vars

\* packet_queue_get has returned -1 on a queue that holds packets.
C13_Witness ==
    /\ cb_pc = "cb_copy" /\ cb_loc.ret = -1
    /\ quit /= 0
    /\ audioq.nb_packets > 0 /\ audioq.first_pkt /= NULL

\* ---------------------------------------------------------------------------
\* C14: when decode_thread services a seek and av_seek_frame succeeds, it runs
\* packet_queue_flush and then puts flush_pkt on the emptied queue; the first
\* packet popped after the flush is flush_pkt, and no packet read from the
\* file before the flush is popped after it.
SeekFrameStep == dec_pc = "seek_frame" /\ dec_pc' /= "seek_frame"
MarkerStep == dec_pc = "putf_body" /\ dec_pc' = "seek_clear"

C14_MarkerFirstAfterFlush ==
    [][/\ (SeekFrameStep /\ hist'.seek_ret >= 0) => dec_pc' = "flush_lock"
       /\ FlushStep => audioq'.first_pkt = NULL /\ audioq'.nb_packets = 0
       /\ MarkerStep =>
            /\ hist.marker_due /\ audioq.first_pkt = NULL
            /\ Len(QueueList') = 1
            /\ heap'[audioq'.first_pkt].pkt.data = flush_pkt.data
       /\ PopStep =>
            /\ hist.marker_due => cb_loc'.avPacket.data = flush_pkt.data
            /\ cb_loc'.avPacket.data /= flush_pkt.data
                 => cb_loc'.avPacket.data > hist.flushed]_vars

\* After a successful seek the flush freed packets nobody had popped, and the
\* consumer has then popped the flush marker.
C14_Witness ==
    /\ hist.freed > 0 /\ ~hist.marker_due
    /\ cb_pc = "adf_loop" /\ cb_loc.ret = 1
    /\ cb_loc.avPacket.data = flush_pkt.data

\* ---------------------------------------------------------------------------
\* C15: when av_seek_frame fails, decode_thread neither flushes the queue nor
\* puts a flush marker, whatever ret held from the previous iteration: while
\* the failed seek is being serviced the producer is never in
\* packet_queue_flush or in the put of flush_pkt.
InFlushPath == {"flush_lock", "flush_body", "putf_lock", "putf_body"}

C15_FailedSeekKeepsQueue == hist.seek_ret < 0 => dec_pc \notin InFlushPath

\* ---------------------------------------------------------------------------
\* C16: when audio_decode_frame returns an error, audio_callback stages a
\* block of SilenceSize (1024) zero bytes with audio_buf_index 0 and goes on
\* to copy from it; the callback does not return because of the error, and
\* the bytes it then copies are the zeros.
InDecode == {"adf_loop", "adf_while", "get_lock", "get_check", "get_body",
             "get_waiting", "get_woken"}

C16_ErrorStagesSilence ==
    [][/\ cb_pc \in InDecode => cb_pc' \in InDecode \cup {"cb_copy"}
       /\ (cb_pc \in InDecode /\ cb_pc' = "cb_copy" /\ cb_loc'.audio_size < 0)
            => /\ audio_buf' = "zeros"
               /\ audio_buf_size' = SilenceSize
               /\ audio_buf_index' = 0
               /\ cb_loc'.len = cb_loc.len
               /\ hist'.written = hist.written
       /\ (cb_pc = "cb_copy" /\ cb_loc.audio_size < 0 /\ cb_pc' /= "cb_copy")
            => /\ audio_buf = "zeros"
               /\ hist'.written = hist.written + Min(SilenceSize, cb_loc.len)
               /\ hist'.written > hist.written]_vars

\* A decode error with quit clear: the callback has copied the silence and is
\* back at the top of its loop with bytes still to deliver.
C16_Witness ==
    /\ cb_pc = "cb_loop" /\ quit = 0
    /\ cb_loc.audio_size < 0
    /\ audio_buf = "zeros" /\ audio_buf_size = SilenceSize
    /\ audio_buf_index = SilenceSize
    /\ hist.written >= SilenceSize /\ cb_loc.len > 0

\* ---------------------------------------------------------------------------
\* C17: every change of quit from clear to set, by main's quit handler or by
\* decode_thread at end of file, is followed by an SDL_CondSignal on
\* audioq.cond.  Once main has left its event loop and decode_thread its read
\* loop nobody is left to signal, so a consumer still waiting in SDL_CondWait
\* by then must have had its signal issued with quit set.
C17_QuitIsSignalled ==
    (quit /= 0 /\ main_pc = "exit" /\ dec_pc \in {"tail", "done"} /\ cb_pc = "get_waiting")
    => hist.signalled

\* ---------------------------------------------------------------------------
\* C18: decode_thread never pushes a media packet while audioq.size exceeds
\* MAX_AUDIOQ_SIZE, so in every reachable state size is at most
\* MAX_AUDIOQ_SIZE plus the largest packet of the file, although size is read
\* at line 575 without the mutex while the consumer pops.
LargestPacket ==
    IF env.file = {} THEN 0
    ELSE CHOOSE n \in {p[1] : p \in env.file} : \A p \in env.file : p[1] <= n

C18_SizeBounded ==
    /\ dec_pc \in {"put_lock", "put_body"} => audioq.size <= MAX_AUDIOQ_SIZE
    /\ audioq.size <= MAX_AUDIOQ_SIZE + LargestPacket

\* The queue is over the cap, the file has more packets, and the producer is
\* at its size test.
C18_Witness ==
    /\ dec_pc = "cap"
    /\ audioq.size > MAX_AUDIOQ_SIZE
    /\ env.pkts < env.maxpkts
    /\ quit = 0

\* ---------------------------------------------------------------------------
\* C19: at the top of every iteration of its loop audio_callback looks at
\* quit and, when it is set, returns at once: nothing is decoded, staged or
\* copied, the stream is left short of the len asked for, and audio_buf_index
\* and audio_buf_size are as they were.
LoopTopStep == cb_pc = "cb_loop" /\ cb_pc' /= "cb_loop"

C19_QuitCheckedEachIteration ==
    [][/\ (LoopTopStep /\ quit /= 0)
            => /\ cb_pc' = "idle"
               /\ UNCHANGED << audio_buf, audio_buf_size, audio_buf_index >>
               /\ UNCHANGED << audio_clock, audio_pkt_size, sync, queueVars, env >>
               /\ hist'.written = hist.written
               /\ hist'.written < hist'.asked
       /\ (cb_pc = "cb_copy" /\ cb_pc' /= "cb_copy") => cb_pc' \in {"cb_loop", "idle"}
       /\ (cb_pc = "cb_copy" /\ cb_pc' = "idle") => hist'.written = hist'.asked]_vars

\* The callback has returned on quit after copying part of what was asked
\* for, in a later iteration than the first.
C19_Witness ==
    /\ cb_pc = "idle" /\ quit /= 0
    /\ hist.written > 0 /\ hist.written < hist.asked
    /\ audio_buf_index = audio_buf_size /\ audio_buf_size > 0

MarkerPopStep == PopStep /\ cb_loc'.avPacket.data = flush_pkt.data

C21_MarkerOnlyFlushes ==
    /\ [](cb_loc.avPacket.data = flush_pkt.data => (cb_pc = "adf_loop" /\ audio_pkt_size <= 0))
    /\ [][MarkerPopStep =>
            /\ ~env'.sent
            /\ env'.frames = env.frames
            /\ audio_clock' = audio_clock
            /\ audio_pkt_size' = audio_pkt_size
            /\ UNCHANGED << audio_buf, audio_buf_size, audio_buf_index >>
            /\ hist'.written = hist.written]_vars

\* The marker has been popped after a chunk had been decoded: the decoder no
\* longer holds data and the clock is where the chunk left it.
C21_Witness ==
    /\ cb_pc = "adf_loop" /\ cb_loc.avPacket.data = flush_pkt.data
    /\ ~env.sent /\ env.frames > 0
    /\ audio_clock = hist.last_clock /\ audio_clock > 0

\* ---------------------------------------------------------------------------
\* C22: after audio_decode_frame has returned an error because of a hard
\* decode error, the next call finds no bytes of the failed packet left to
\* decode (audio_pkt_size is not positive), so that it pops the next packet.
RefillStep == cb_pc = "cb_loop" /\ cb_pc' = "adf_loop"

C22_ErrorSkipsPacket ==
    [][(RefillStep /\ cb_loc.audio_size < 0) => audio_pkt_size' <= 0]_vars

\* ---------------------------------------------------------------------------
\* C23: resampled output is written to audio_buf only when it fits: no more
\* than buf_size = sizeof(audio_buf) bytes are ever copied to it (an oversize
\* result being detected before the write).
C23_WriteFits == hist.copied <= AudioBufCapacity

\* ---------------------------------------------------------------------------
\* C24: when audio_resampling fails for a decoded frame, audio_decode_frame
\* drops the frame: it returns neither an error nor a chunk for it, leaves
\* audio_clock and the staged buffer alone, and goes on decoding.
ResampleFailStep ==
    cb_pc = "adf_while" /\ hist'.resampled = hist.resampled + 1 /\ cb_loc'.data_size < 0

C24_ResampleFailureDropsFrame ==
    [][ResampleFailStep =>
        /\ cb_pc' \in {"adf_while", "get_lock"}
        /\ audio_clock' = audio_clock
        /\ cb_loc'.audio_size = cb_loc.audio_size
        /\ UNCHANGED << audio_buf, audio_buf_size, audio_buf_index >>
        /\ hist'.written = hist.written /\ hist'.last_clock = hist.last_clock]_vars

\* A frame came out of the decoder, its resampling failed, no chunk has ever
\* been returned, and audio_decode_frame is fetching the next packet.
C24_Witness ==
    /\ cb_pc = "get_lock" /\ quit = 0
    /\ cb_loc.data_size < 0
    /\ env.frames > 0 /\ hist.last_clock = -1
    /\ audio_buf_size = 0

\* ---------------------------------------------------------------------------
\* C25: in external-master mode a diff of 1.0 s or more makes
\* synchronize_audio reset audio_diff_cum and audio_diff_avg_count to 0 and
\* return samples_size unchanged; every diff below 1.0 s, however negative,
\* is accumulated: audio_diff_cum becomes diff + coef * audio_diff_cum.
C25_NoSyncThreshold ==
    (call.samples_size > 0 /\ call.before.av_sync_type = AV_SYNC_EXTERNAL_MASTER)
    => IF call.diff >= BytesPerSec
       THEN /\ sync.audio_diff_cum = 0 /\ sync.audio_diff_avg_count = 0
            /\ call.size = call.samples_size /\ call.writes = {}
       ELSE /\ sync.audio_diff_cum * CoefDen
                 = call.diff * CumScale * CoefDen
                   + call.before.audio_diff_avg_coef * call.before.audio_diff_cum
            /\ sync.audio_diff_avg_count >= call.before.audio_diff_avg_count

\* External master five seconds behind the reference clock, with a sum and a
\* count accumulated before: the difference has been added to the sum.
C25_Witness ==
    /\ call.before.av_sync_type = AV_SYNC_EXTERNAL_MASTER
    /\ call.diff = -5 * BytesPerSec
    /\ call.before.audio_diff_cum /= 0 /\ call.before.audio_diff_avg_count > 0
    /\ sync.audio_diff_cum < call.diff * CumScale + BytesPerSec
    /\ sync.audio_diff_avg_count > 0

\* ---------------------------------------------------------------------------
\* C26: when a correction fires and the size wanted is larger than
\* samples_size (audio is ahead by at least one sample frame), the bytes from
\* samples_size up to the size returned are filled with copies of the last
\* sample frame and the larger size is returned.
WantsMore == CDiv(call.diff * SampleRate, BytesPerSec) * 2 * Channels > 0

C26_PadsToWanted ==
    (call.corrected /\ WantsMore)
    => /\ call.size > call.samples_size
       /\ call.writes = call.samples_size .. (call.size - 1)

\* ---------------------------------------------------------------------------
\* C27: at most one seek request is pending (seek_req is 0 or 1); only main,
\* in stream_seek, sets it and only decode_thread clears it, once, at the end
\* of the iteration in which it called av_seek_frame for it, whether the seek
\* failed or not.
InSeekBlock == {"seek_pos", "seek_frame"} \cup Servicing

C27_OnePendingSeek ==
    /\ [](seek_req \in {0, 1} /\ (dec_pc \in InSeekBlock => seek_req = 1))
    /\ [][/\ (seek_req = 0 /\ seek_req' /= 0)
               => (main_pc = "seek_req" /\ main_pc' /= main_pc /\ dec_pc' = dec_pc)
          /\ (seek_req /= 0 /\ seek_req' = 0)
               => /\ dec_pc = "seek_clear" /\ dec_pc' = "cap" /\ main_pc' = main_pc
                  /\ hist.applied /= NoSeek
          /\ (dec_pc = "seek_clear" /\ dec_pc' /= dec_pc) => seek_req' = 0
          /\ (dec_pc = "seek_frame" /\ dec_pc' /= dec_pc) => dec_pc' \in Servicing]_vars

\* A seek that failed has been cleared and the next request is pending.
C27_Witness ==
    /\ seek_req = 1 /\ env.keys = 2
    /\ "error while seeking" \in stderr
    /\ dec_pc \notin InSeekBlock
    /\ main_pc = "check_quit"

\* ---------------------------------------------------------------------------
\* C28: the bytes audio_callback delivers, across calls, are the staged
\* blocks in order with no byte skipped or repeated.  A copy delivers the
\* min(staged remaining, requested remaining) bytes that start at
\* audio_buf_index and advances the index past them; a block is replaced only
\* when all of it has been delivered; nothing else moves the index or changes
\* the block, so what one call leaves is what the next call delivers first.
StageStep == cb_pc \in InDecode /\ cb_pc' = "cb_copy"
CopyStep == hist'.written > hist.written

C28_StreamInOrder ==
    /\ [](0 <= audio_buf_index /\ audio_buf_index <= audio_buf_size)
    /\ [][/\ CopyStep =>
               LET staged == audio_buf_size - audio_buf_index
                   n == IF staged < cb_loc.len THEN staged ELSE cb_loc.len
               IN  /\ hist'.written = hist.written + n
                   /\ audio_buf_index' = audio_buf_index + n
                   /\ cb_loc'.len = cb_loc.len - n
                   /\ UNCHANGED << audio_buf, audio_buf_size >>
          /\ StageStep => (audio_buf_index >= audio_buf_size /\ audio_buf_index' = 0)
          /\ ~(CopyStep \/ StageStep)
               => UNCHANGED << audio_buf, audio_buf_size, audio_buf_index >>]_vars

\* The second call has delivered bytes the first call left staged: the index
\* is further into the block than the bytes this call has written.
C28_Witness ==
    /\ env.calls = 2 /\ hist.written > 0
    /\ audio_buf = "pcm"
    /\ audio_buf_index > hist.written

\* ---------------------------------------------------------------------------
\* C29: every packet handed to the queue has its payload released exactly
\* once, by the consumer after decoding it or by packet_queue_flush when a
\* seek discards it: after a flush the payload of every media packet that was
\* queued has been released.
C29_FlushReleasesPayloads ==
    [][FlushStep =>
        \A i \in 1..Len(QueueList) :
            LET pkt == heap[QueueList[i]].pkt
            IN  ~IsFlushPacket(pkt) => pkt.data \in hist'.released]_vars

\* ---------------------------------------------------------------------------
\* C30: the list pointers, nb_packets and size of the queue are modified only
\* by the thread that holds the queue mutex (decode_thread inside
\* packet_queue_put or packet_queue_flush, the audio thread inside
\* packet_queue_get); the two threads are never inside those sections
\* together; the holder of the mutex can always take its next step; and a
\* consumer blocked in SDL_CondWait does not hold the mutex.
DecodeHolds == dec_pc \in {"flush_body", "putf_body", "put_body"}
AudioHolds == cb_pc \in {"get_check", "get_body"}
QueueWritten == audioq' /= audioq \/ heap' /= heap

C30_QueueOnlyUnderMutex ==
    /\ [](/\ (mutex = "decode") = DecodeHolds
          /\ (mutex = "audio") = AudioHolds
          /\ ~(DecodeHolds /\ AudioHolds)
          /\ (cb_pc \in {"get_waiting", "get_woken"} => mutex /= "audio")
          /\ (mutex = "decode" => ENABLED decode_thread)
          /\ (mutex = "audio" => ENABLED audio_thread))
    /\ [][QueueWritten
           => \/ /\ mutex = "decode" /\ DecodeHolds /\ dec_pc' /= dec_pc
                 /\ cb_pc' = SDL_CondSignal(cb_pc) /\ main_pc' = main_pc
              \/ /\ mutex = "audio" /\ cb_pc = "get_body" /\ cb_pc' /= cb_pc
                 /\ dec_pc' = dec_pc /\ main_pc' = main_pc]_vars

\* The consumer waits on the empty queue, the mutex released, while
\* decode_thread holds the mutex inside packet_queue_put on a second packet.
C30_Witness ==
    /\ cb_pc = "get_waiting"
    /\ mutex = "decode" /\ dec_pc = "put_body"
    /\ audioq.nb_packets = 0
    /\ hist.released /= {}

\* ---------------------------------------------------------------------------
\* C31: every call of audio_resampling releases all it allocated (context,
\* output sample arrays, state record) before it returns, on the successful
\* return and on every error return: no resampler allocation is live
\* between calls.
C31_NoLiveResampler == hist.live = {}

\* ---------------------------------------------------------------------------
\* C32: stream_seek writes seek_pos and seek_flags before it sets seek_req;
\* while seek_req is set neither is written; so the position decode_thread
\* reads after it has seen the flag, and the flags it passes to
\* av_seek_frame, are those of the one accepted request.
RaiseStep == seek_req = 0 /\ seek_req' /= 0
ReadPosStep == dec_pc = "seek_pos" /\ dec_pc' /= dec_pc
ReadFlagsStep == dec_pc = "seek_frame" /\ dec_pc' /= dec_pc

C32_PendingSeekIsStable ==
    [][/\ RaiseStep => /\ seek_pos = hist.accepted.pos /\ seek_flags = hist.accepted.flags
                       /\ seek_pos' = seek_pos /\ seek_flags' = seek_flags
       /\ seek_req /= 0 => (seek_pos' = seek_pos /\ seek_flags' = seek_flags)
       /\ ReadPosStep => /\ seek_req /= 0
                         /\ dec_loc'.seek_target = av_rescale_q(hist.accepted.pos)
       /\ ReadFlagsStep => /\ seek_req /= 0
                           /\ hist'.applied.flags = hist.accepted.flags
                           /\ hist'.applied.pos = av_rescale_q(hist.accepted.pos)]_vars

\* Two requests were accepted, one after the other had been cleared;
\* decode_thread has seen the flag for the second, a backward seek, and read
\* its position.
C32_Witness ==
    /\ env.keys = 2 /\ ~hist.dropped
    /\ dec_pc = "seek_frame" /\ seek_req = 1
    /\ hist.accepted = [pos |-> -5000000, flags |-> AVSEEK_FLAG_BACKWARD]
    /\ dec_loc.seek_target = av_rescale_q(-5000000)
    /\ hist.flushed > 0

\* ---------------------------------------------------------------------------
\* C33: as long as quit is not set, every seek request stream_seek accepted
\* is eventually serviced and seek_req cleared, also while the queue is over
\* the byte cap and after av_read_frame has returned an error.
C33_SeekEventuallyServiced ==
    (seek_req /= 0 /\ quit = 0) ~> (seek_req = 0 \/ quit /= 0)

\* ---------------------------------------------------------------------------
\* C34: at the end of the file decode_thread sets quit at once, packets
\* queued or not; quit once set is never cleared; from then on a
\* packet_queue_get that tests quit returns -1 and pops nothing; and no packet
\* that was queued at the end of the file reaches the decoder.
EofSeen == dec_loc.ret = AVERROR_EOF /\ dec_pc \in {"tail", "done"}
EofStep == dec_pc = "cap" /\ dec_pc' = "tail" /\ dec_loc'.ret = AVERROR_EOF
GetReturnStep == cb_pc \in {"get_check", "get_body"} /\ cb_pc' \notin InGet

C34_EofQuitsAtOnce ==
    /\ [](cb_pc = "adf_while" => cb_loc.avPacket.data \notin hist.at_eof)
    /\ [][/\ EofStep => (quit' = 1 /\ audioq' = audioq)
          /\ quit /= 0 => quit' = quit
          /\ (EofSeen /\ GetCheckStep) => (cb_loc'.ret = -1 /\ cb_pc' \notin InGet
                                            /\ audioq' = audioq)]_vars

\* The end of the file was reported with a packet queued; a packet_queue_get
\* that had passed its quit test popped that packet, and audio_decode_frame
\* is at its quit test with it, nothing decoded.
C34_Witness ==
    /\ EofSeen /\ quit = 1
    /\ cb_loc.avPacket.data \in hist.at_eof
    /\ cb_pc = "adf_loop" /\ cb_loc.ret = 1 /\ audio_pkt_size > 0
    /\ env.frames = 0

\* C34 as stated: once the end of the file has been reported, every
\* packet_queue_get that returns, returns the quit result.
C34_EveryGetQuits ==
    /\ C34_EofQuitsAtOnce
    /\ [][(EofSeen /\ GetReturnStep) => cb_loc'.ret = -1]_vars

\* ---------------------------------------------------------------------------
\* C35: audio_buf_index <= audio_buf_size <= sizeof(audio_buf) at the end of
\* every iteration of the fill loop of audio_callback, whatever sizes
\* audio_decode_frame and synchronize_audio return: the copy to the stream
\* reads neither past the staged data nor past audio_buf.
C35_IndexSizeCapacity ==
    /\ 0 <= audio_buf_index
    /\ audio_buf_index <= audio_buf_size
    /\ audio_buf_size <= AudioBufCapacity

\* ---------------------------------------------------------------------------
\* C36: in every sync mode and for every diff the size synchronize_audio
\* returns is at least 0 and at most samples_size, and is a whole number of
\* sample frames (2 * channels bytes) when samples_size is.
C36_SizeInRange ==
    /\ 0 <= call.size /\ call.size <= call.samples_size
    /\ call.samples_size % call.n = 0 => call.size % call.n = 0

====
